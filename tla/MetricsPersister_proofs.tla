---------------------- MODULE MetricsPersister_proofs ----------------------
(***************************************************************************)
(* Proofs about MetricsPersister, for every number of stores, queue size,  *)
(* retry limit and amount of data.                                         *)
(***************************************************************************)
EXTENDS MetricsPersister, TLAPS

-----------------------------------------------------------------------------
(* Types, and what the control flow guarantees about the retry queues.     *)

\* ProcessRetryQueue resends from a queue that is not empty and counts its
\* resends from 0; both loops over the stores begin with the first.
ControlFlow ==
  /\ pc = "retry" /\ iterations_done > 0 => Backlog(cur)
  /\ pc \in {"select", "deliver"} => iterations_done = 0
  /\ pc = "select" => cur = 1

\* in_error is set only while there is something to retry: were it left set on
\* an empty queue, nothing would ever clear it.
ErrorImpliesBacklog == \A i \in Stores : in_error[i] => Backlog(i)

BaseInv ==
  /\ TypeOK
  /\ QueueBounded
  /\ ErrorImpliesBacklog
  /\ ControlFlow

\* A send puts only data of the batch it was given, and returns a
\* known error.
LEMMA SendResultsType ==
  ASSUME TypeOK, NEW i \in Stores, NEW b \in SUBSET Data,
         NEW r \in SendResults(i, b)
  PROVE  /\ r.put \in SUBSET Data
         /\ r.put \subseteq b
         /\ r.err \in Errors
BY DEF SendResults, Results

\* The end of a loop iteration leaves the loop variables well typed.
LEMMA NextStoreType ==
  ASSUME TypeOK, NextStore, pc \in {"deliver", "retry"}
  PROVE  /\ cur' \in Stores
         /\ pc' \in {"select", "deliver", "retry"}
         /\ msg_arr' \in SUBSET Data
         /\ iterations_done' = 0
         /\ pc' = "select" => cur' = 1
BY PersisterAssumption DEF TypeOK, NextStore, Stores

\* Recording the fate of a batch keeps the histories well typed.
LEMMA SettleType ==
  ASSUME TypeOK, NEW b \in SUBSET Data, NEW r, r.put \in SUBSET Data,
         Settle(cur, b, r)
  PROVE  /\ written' \in [Stores -> SUBSET Data]
         /\ rejected' \in [Stores -> SUBSET Data]
         /\ lost' \in [Stores -> SUBSET Data]
<1>1. /\ written \in [Stores -> SUBSET Data]
      /\ rejected \in [Stores -> SUBSET Data]
      /\ lost \in [Stores -> SUBSET Data]
      /\ cur \in Stores
  BY DEF TypeOK
<1>2. b \ r.put \in SUBSET Data
  OBVIOUS
<1>3. written' \in [Stores -> SUBSET Data]
  <2>1. written[cur] \cup r.put \in SUBSET Data
    BY <1>1
  <2> QED
    BY <1>1, <2>1 DEF Settle
<1>4. rejected' \in [Stores -> SUBSET Data]
  <2>1. rejected[cur] \cup (b \ r.put) \in SUBSET Data
    BY <1>1, <1>2
  <2> QED
    BY <1>1, <2>1 DEF Settle
<1>5. lost' \in [Stores -> SUBSET Data]
  <2>1. lost[cur] \cup (b \ r.put) \in SUBSET Data
    BY <1>1, <1>2
  <2> QED
    BY <1>1, <2>1 DEF Settle
<1> QED
  BY <1>3, <1>4, <1>5

\* Keeping a batch leaves the histories well typed.
LEMMA KeepType ==
  ASSUME TypeOK, NEW r, r.put \in SUBSET Data, Keep(cur, r)
  PROVE  /\ written' \in [Stores -> SUBSET Data]
         /\ rejected' \in [Stores -> SUBSET Data]
         /\ lost' \in [Stores -> SUBSET Data]
<1>1. written \in [Stores -> SUBSET Data] /\ cur \in Stores
  BY DEF TypeOK
<1>2. written[cur] \cup r.put \in SUBSET Data
  BY <1>1
<1> QED
  BY <1>1, <1>2 DEF Keep, TypeOK

\* BaseInv is inductive.
LEMMA BaseInvInit == Init => BaseInv
BY PersisterAssumption
   DEF Init, BaseInv, TypeOK, QueueBounded, ErrorImpliesBacklog, ControlFlow,
       Stores, Data, Backlog

\* Every step of Next, and every stuttering step, keeps BaseInv.
LEMMA BaseInvStep == BaseInv /\ [Next]_vars => BaseInv'
<1> SUFFICES ASSUME BaseInv, [Next]_vars PROVE BaseInv'
  OBVIOUS
<1> USE PersisterAssumption
<1>a. TypeOK
  BY DEF BaseInv
<1>1. CASE Produce
  <2>1. PICK k \in 1 .. MaxBatch :
             /\ produced + k <= MaxItems
             /\ produced' = produced + k
             /\ storage_ch' = Append(storage_ch, (produced + 1) .. (produced + k))
    BY <1>1 DEF Produce
  <2>2. (produced + 1) .. (produced + k) \in SUBSET Data
    BY <1>a, <2>1 DEF TypeOK, Data
  <2>3. storage_ch' \in Seq(SUBSET Data)
    BY <1>a, <2>1, <2>2 DEF TypeOK
  <2>4. produced' \in 0 .. MaxItems
    BY <1>a, <2>1 DEF TypeOK
  <2> QED
    BY <1>1, <2>3, <2>4 DEF Produce, BaseInv, TypeOK, QueueBounded,
       ErrorImpliesBacklog, ControlFlow, Backlog, control, history
<1>2. ASSUME NEW i \in Stores, HealthChange(i) PROVE BaseInv'
  BY <1>2 DEF HealthChange, BaseInv, TypeOK, QueueBounded,
     ErrorImpliesBacklog, ControlFlow, Backlog, control, history
<1>3. ASSUME NEW i \in Stores, TenSecondsPass(i) PROVE BaseInv'
  BY <1>3 DEF TenSecondsPass, BaseInv, TypeOK, QueueBounded,
     ErrorImpliesBacklog, ControlFlow, Backlog, control, history
<1>4. CASE Receive
  BY <1>4 DEF Receive, BaseInv, TypeOK, QueueBounded,
     ErrorImpliesBacklog, ControlFlow, Backlog, history
<1>5. CASE QueueBehindBacklog
  <2>1. /\ retry_queue' \in [Stores -> Seq(SUBSET Data)]
        /\ QueueBounded'
        /\ \A i \in Stores : retry_queue[i] # <<>> => retry_queue'[i] # <<>>
    BY <1>a, <1>5 DEF QueueBehindBacklog, Pushed, BaseInv, TypeOK, QueueBounded, Full, Backlog
  <2>2. dropped' \in [Stores -> SUBSET Data]
    BY <1>a, <1>5 DEF QueueBehindBacklog, Pushed, TypeOK, Backlog
  <2>3. /\ cur' \in Stores
        /\ pc' \in {"select", "deliver", "retry"}
        /\ msg_arr' \in SUBSET Data
        /\ iterations_done' = 0
        /\ pc' = "select" => cur' = 1
    BY <1>a, <1>5, NextStoreType DEF QueueBehindBacklog, Pushed
  <2>4. ErrorImpliesBacklog' /\ ControlFlow'
    BY <1>5, <2>1, <2>3 DEF QueueBehindBacklog, Pushed, BaseInv, ErrorImpliesBacklog,
       ControlFlow, Backlog
  <2> QED
    BY <1>a, <1>5, <2>1, <2>2, <2>3, <2>4 DEF QueueBehindBacklog, Pushed, BaseInv, TypeOK
<1>6. CASE SendDirectly
  <2>1. PICK r \in SendResults(cur, msg_arr) :
             \/ /\ in_error' = [in_error EXCEPT ![cur] = TRUE]
                /\ retry_queue' = [retry_queue EXCEPT ![cur] = Append(@, msg_arr)]
                /\ Keep(cur, r)
             \/ /\ Settle(cur, msg_arr, r)
                /\ UNCHANGED <<in_error, retry_queue>>
    BY <1>6 DEF SendDirectly
  <2>2. r.put \in SUBSET Data
    BY <1>a, SendResultsType DEF TypeOK
  <2>3. /\ written' \in [Stores -> SUBSET Data]
        /\ rejected' \in [Stores -> SUBSET Data]
        /\ lost' \in [Stores -> SUBSET Data]
    <3>1. msg_arr \in SUBSET Data
      BY <1>a DEF TypeOK
    <3> QED
      BY <1>a, <2>1, <2>2, <3>1, KeepType, SettleType
  <2>4. /\ retry_queue' \in [Stores -> Seq(SUBSET Data)]
        /\ in_error' \in [Stores -> BOOLEAN]
        /\ QueueBounded'
        /\ ErrorImpliesBacklog'
    <3>1. CASE UNCHANGED <<in_error, retry_queue>>
      BY <1>a, <3>1 DEF BaseInv, TypeOK, QueueBounded, ErrorImpliesBacklog, Backlog
    <3>2. CASE /\ in_error' = [in_error EXCEPT ![cur] = TRUE]
               /\ retry_queue' = [retry_queue EXCEPT ![cur] = <<msg_arr>>]
      BY <1>a, <3>2 DEF BaseInv, TypeOK, QueueBounded, ErrorImpliesBacklog, Backlog
    <3>3. retry_queue[cur] = <<>> /\ Append(<<>>, msg_arr) = <<msg_arr>>
      BY <1>6 DEF SendDirectly, Backlog
    <3> QED
      BY <2>1, <3>1, <3>2, <3>3
  <2>5. cooled' \in [Stores -> BOOLEAN]
    BY <1>a, <1>6 DEF SendDirectly, TypeOK
  <2>6. /\ cur' \in Stores
        /\ pc' \in {"select", "deliver", "retry"}
        /\ msg_arr' \in SUBSET Data
        /\ iterations_done' = 0
        /\ pc' = "select" => cur' = 1
    BY <1>a, <1>6, NextStoreType DEF SendDirectly
  <2>7. ControlFlow'
    BY <2>6 DEF ControlFlow
  <2> QED
    BY <1>a, <1>6, <2>3, <2>4, <2>5, <2>6, <2>7 DEF SendDirectly, BaseInv, TypeOK
<1>7. CASE BeginRetryPass
  BY <1>7 DEF BeginRetryPass, BaseInv, TypeOK, QueueBounded,
     ErrorImpliesBacklog, ControlFlow, Backlog, env, history
<1>8. CASE SkipStore
  BY <1>a, <1>8, NextStoreType DEF SkipStore, BaseInv, TypeOK, QueueBounded,
     ErrorImpliesBacklog, ControlFlow, Backlog, env, history
<1>9. CASE RetrySucceeds
  <2>1. pc = "retry" /\ retry_queue[cur] # <<>>
    BY <1>9 DEF RetrySucceeds, Retrying, MayRetry, BaseInv, ControlFlow, Backlog
  <2>2. Head(retry_queue[cur]) \in SUBSET Data /\ cur \in Stores
    BY <1>a, <2>1 DEF TypeOK
  <2>3. PICK r \in SendResults(cur, Head(retry_queue[cur])) :
             Settle(cur, Head(retry_queue[cur]), r)
    BY <1>9 DEF RetrySucceeds
  <2>4. r.put \in SUBSET Data
    BY <1>a, <2>2, SendResultsType
  <2>5. /\ written' \in [Stores -> SUBSET Data]
        /\ rejected' \in [Stores -> SUBSET Data]
        /\ lost' \in [Stores -> SUBSET Data]
    BY <1>a, <2>2, <2>3, <2>4, SettleType
  <2>6. /\ retry_queue' = [retry_queue EXCEPT ![cur] = Tail(@)]
        /\ retry_queue' \in [Stores -> Seq(SUBSET Data)]
        /\ QueueBounded'
    BY <1>a, <1>9, <2>1 DEF RetrySucceeds, BaseInv, TypeOK, QueueBounded
  <2>7. CASE Tail(retry_queue[cur]) = <<>> \/ iterations_done + 1 = RetryLimit
    <3>1. LeaveRetryQueue(FALSE)
      BY <1>9, <2>7 DEF RetrySucceeds
    <3>2. in_error' \in [Stores -> BOOLEAN] /\ ErrorImpliesBacklog'
      BY <1>a, <3>1, <2>6 DEF LeaveRetryQueue, BaseInv, TypeOK, ErrorImpliesBacklog,
         Backlog
    <3> QED
      BY <1>a, <1>9, <2>1, <2>5, <2>6, <3>1, <3>2, NextStoreType
      DEF RetrySucceeds, LeaveRetryQueue, BaseInv, TypeOK, ControlFlow
  <2>8. CASE ~(Tail(retry_queue[cur]) = <<>> \/ iterations_done + 1 = RetryLimit)
    <3>1. /\ iterations_done' = iterations_done + 1
          /\ UNCHANGED <<pc, cur, msg_arr, in_error, cooled>>
      BY <1>9, <2>8 DEF RetrySucceeds
    <3>2. retry_queue'[cur] # <<>> /\ \A i \in Stores \ {cur} : retry_queue'[i] = retry_queue[i]
      BY <1>a, <2>6, <2>8 DEF TypeOK
    <3>3. ErrorImpliesBacklog'
      BY <1>a, <3>1, <3>2 DEF BaseInv, TypeOK, ErrorImpliesBacklog, Backlog
    <3>4. ControlFlow'
      BY <2>1, <3>1, <3>2 DEF ControlFlow, Backlog
    <3>5. iterations_done' \in 0 .. (RetryLimit - 1)
      BY <1>a, <3>1, <2>8 DEF TypeOK
    <3> QED
      BY <1>a, <1>9, <2>5, <2>6, <3>1, <3>3, <3>4, <3>5 DEF RetrySucceeds, BaseInv, TypeOK
  <2> QED
    BY <2>7, <2>8
<1>10. CASE Retrying /\ RetryFails
  <2>1. pc = "retry" /\ retry_queue[cur] # <<>>
    BY <1>10 DEF RetryFails, Retrying, MayRetry, BaseInv, ControlFlow, Backlog
  <2>2. PICK r \in SendResults(cur, Head(retry_queue[cur])) : Keep(cur, r)
    BY <1>10 DEF RetryFails
  <2>3. Head(retry_queue[cur]) \in SUBSET Data /\ cur \in Stores
    BY <1>a, <2>1 DEF TypeOK
  <2>4. r.put \in SUBSET Data
    BY <1>a, <2>3, SendResultsType
  <2>5. /\ written' \in [Stores -> SUBSET Data]
        /\ rejected' \in [Stores -> SUBSET Data]
        /\ lost' \in [Stores -> SUBSET Data]
    BY <1>a, <2>2, <2>4, KeepType
  <2>6. in_error' = [in_error EXCEPT ![cur] = TRUE] /\ cooled' \in [Stores -> BOOLEAN]
    BY <1>a, <1>10 DEF RetryFails, LeaveRetryQueue, TypeOK
  <2>7. in_error' \in [Stores -> BOOLEAN] /\ ErrorImpliesBacklog'
    BY <1>a, <1>10, <2>1, <2>6 DEF RetryFails, BaseInv, TypeOK, ErrorImpliesBacklog,
       Backlog
  <2>8. /\ cur' \in Stores
        /\ pc' \in {"select", "deliver", "retry"}
        /\ msg_arr' \in SUBSET Data
        /\ iterations_done' = 0
        /\ pc' = "select" => cur' = 1
    BY <1>a, <1>10, <2>1, NextStoreType DEF RetryFails, LeaveRetryQueue
  <2> QED
    BY <1>a, <1>10, <2>5, <2>6, <2>7, <2>8 DEF RetryFails, BaseInv, TypeOK,
       QueueBounded, ControlFlow
<1>11. CASE Retrying /\ RetryDies
  <2>1. pc = "retry" /\ retry_queue[cur] # <<>>
    BY <1>11 DEF RetryDies, Retrying, MayRetry, BaseInv, ControlFlow, Backlog
  <2>2. Head(retry_queue[cur]) \in SUBSET Data /\ cur \in Stores
    BY <1>a, <2>1 DEF TypeOK
  <2>3. /\ written' \in [Stores -> SUBSET Data]
        /\ rejected' \in [Stores -> SUBSET Data]
        /\ lost' \in [Stores -> SUBSET Data]
    <3>1. CASE UNCHANGED <<written, rejected, lost>>
      BY <1>a, <3>1 DEF TypeOK
    <3>2. ASSUME NEW r \in SendResults(cur, Head(retry_queue[cur])), Keep(cur, r)
          PROVE  /\ written' \in [Stores -> SUBSET Data]
                 /\ rejected' \in [Stores -> SUBSET Data]
                 /\ lost' \in [Stores -> SUBSET Data]
      <4>1. r.put \in SUBSET Data
        BY <1>a, <2>2, SendResultsType
      <4> QED
        BY <1>a, <3>2, <4>1, KeepType
    <3> QED
      BY <1>11, <3>1, <3>2 DEF RetryDies
  <2>4. /\ storage_ch' = <<>> /\ storage_ch' \in Seq(SUBSET Data)
        /\ retry_queue' = [i \in Stores |-> <<>>]
        /\ retry_queue' \in [Stores -> Seq(SUBSET Data)]
        /\ in_error' = [i \in Stores |-> FALSE]
    BY <1>11 DEF RetryDies
  <2>5. QueueBounded' /\ ErrorImpliesBacklog'
    BY <2>4 DEF QueueBounded, ErrorImpliesBacklog
  <2> QED
    BY <1>a, <1>11, <2>3, <2>4, <2>5 DEF RetryDies, BaseInv, TypeOK, ControlFlow
<1>12. CASE UNCHANGED vars
  BY <1>12 DEF vars, BaseInv, TypeOK, QueueBounded, ErrorImpliesBacklog,
     ControlFlow, Backlog
<1> QED
  BY <1>1, <1>2, <1>3, <1>4, <1>5, <1>6, <1>7, <1>8, <1>9, <1>10, <1>11, <1>12
  DEF Next, Persister, RetryStops

\* With Influx the retry queues stay empty: MetricsPersister queues no batch
\* for it, so that the Influx branches of ProcessRetryQueue are never reached.
NoInfluxBacklog == Datastore = "influx" => \A i \in Stores : ~Backlog(i)

ControlInv == BaseInv /\ NoInfluxBacklog

\* Only a send that must be queued makes a backlog where there was none.
LEMMA NoInfluxBacklogStep == ControlInv /\ [Next]_vars => NoInfluxBacklog'
<1> SUFFICES ASSUME ControlInv, [Next]_vars, Datastore = "influx"
             PROVE  retry_queue' = retry_queue
  BY DEF ControlInv, NoInfluxBacklog, Backlog
<1>1. \A i \in Stores : ~Backlog(i)
  BY DEF ControlInv, NoInfluxBacklog
<1>2. cur \in Stores /\ (pc = "retry" => iterations_done = 0)
  BY <1>1 DEF ControlInv, BaseInv, TypeOK, ControlFlow
<1>3. CASE SendDirectly
  BY <1>3 DEF SendDirectly, MustQueue
<1>4. ~Retrying /\ ~QueueBehindBacklog
  BY <1>1, <1>2 DEF Retrying, MayRetry, QueueBehindBacklog
<1> QED
  BY <1>3, <1>4 DEF Next, Persister, Produce, HealthChange, TenSecondsPass, Receive,
     BeginRetryPass, SkipStore, RetrySucceeds, RetryStops, RetryFails,
     RetryDies, vars

\* ControlInv is inductive.
LEMMA ControlInvInit == Init => ControlInv
BY BaseInvInit DEF Init, ControlInv, NoInfluxBacklog, Backlog

\* Every step of Next, and every stuttering step, keeps ControlInv.
LEMMA ControlInvStep == ControlInv /\ [Next]_vars => ControlInv'
BY BaseInvStep, NoInfluxBacklogStep DEF ControlInv

\* The inductive invariant holds in every reachable state.
THEOREM ControlInvAlways == Spec => []ControlInv
BY ControlInvInit, ControlInvStep, PTL DEF Spec

\* The retry queue of an Influx store is always empty: what an outage of Influx
\* costs is never queued, and the Influx branches of the retry are dead.
THEOREM InfluxNeverQueues == Spec => []NoInfluxBacklog
BY ControlInvAlways, PTL DEF ControlInv

\* The variables keep their types, the loop variables included: cur never
\* leaves the stores and a call of ProcessRetryQueue stays below its limit.
THEOREM TypeCorrect == Spec => []TypeOK
BY ControlInvAlways, PTL DEF ControlInv, BaseInv

\* PERSIST_QUEUE_MAX_SIZE bounds every retry queue.
THEOREM QueueIsBounded == Spec => []QueueBounded
BY ControlInvAlways, PTL DEF ControlInv, BaseInv

\* in_error is set only on a store with a backlog.
THEOREM ErrorHasBacklog == Spec => []ErrorImpliesBacklog
BY ControlInvAlways, PTL DEF ControlInv, BaseInv

-----------------------------------------------------------------------------
(* Sequences of batches.                                                   *)

\* A batch appended to a queue adds its data.
LEMMA DataInAppend ==
  ASSUME NEW q \in Seq(SUBSET Data), NEW b \in SUBSET Data
  PROVE  DataIn(Append(q, b)) = DataIn(q) \cup b
<1>1. /\ DOMAIN Append(q, b) = 1 .. Len(q) + 1
      /\ DOMAIN q = 1 .. Len(q)
      /\ \A k \in 1 .. Len(q) : Append(q, b)[k] = q[k]
      /\ Append(q, b)[Len(q) + 1] = b
  OBVIOUS
<1>2. ASSUME NEW x, x \in DataIn(Append(q, b)) PROVE x \in DataIn(q) \cup b
  <2>1. PICK k \in 1 .. Len(q) + 1 : x \in Append(q, b)[k]
    BY <1>1, <1>2 DEF DataIn
  <2> QED
    BY <1>1, <2>1 DEF DataIn
<1>3. ASSUME NEW x, x \in DataIn(q) \cup b PROVE x \in DataIn(Append(q, b))
  <2>1. \E k \in 1 .. Len(q) + 1 : x \in Append(q, b)[k]
    BY <1>1, <1>3 DEF DataIn
  <2> QED
    BY <1>1, <2>1 DEF DataIn
<1> QED
  BY <1>2, <1>3

\* The data of a queue are those of its head and of its tail.
LEMMA DataInTail ==
  ASSUME NEW q \in Seq(SUBSET Data), q # <<>>
  PROVE  DataIn(q) = Head(q) \cup DataIn(Tail(q))
<1>1. /\ Len(q) \in Nat \ {0}
      /\ DOMAIN Tail(q) = 1 .. (Len(q) - 1)
      /\ DOMAIN q = 1 .. Len(q)
      /\ \A k \in 1 .. (Len(q) - 1) : Tail(q)[k] = q[k + 1]
      /\ Head(q) = q[1]
  OBVIOUS
<1>2. ASSUME NEW x, x \in DataIn(q) PROVE x \in Head(q) \cup DataIn(Tail(q))
  <2>1. PICK k \in 1 .. Len(q) : x \in q[k]
    BY <1>1, <1>2 DEF DataIn
  <2>2. CASE k = 1
    BY <1>1, <2>1, <2>2
  <2>3. CASE k # 1
    <3>1. k - 1 \in 1 .. (Len(q) - 1) /\ x \in Tail(q)[k - 1]
      BY <1>1, <2>1, <2>3
    <3> QED
      BY <1>1, <3>1 DEF DataIn
  <2> QED
    BY <2>2, <2>3
<1>3. ASSUME NEW x, x \in Head(q) \cup DataIn(Tail(q)) PROVE x \in DataIn(q)
  <2>1. CASE x \in Head(q)
    BY <1>1, <2>1 DEF DataIn
  <2>2. CASE x \in DataIn(Tail(q))
    <3>1. PICK k \in 1 .. (Len(q) - 1) : x \in Tail(q)[k]
      BY <1>1, <2>2 DEF DataIn
    <3>2. k + 1 \in 1 .. Len(q) /\ x \in q[k + 1]
      BY <1>1, <3>1
    <3> QED
      BY <1>1, <3>2 DEF DataIn
  <2> QED
    BY <1>3, <2>1, <2>2
<1> QED
  BY <1>2, <1>3

\* A queue of one batch has the data of that batch.
LEMMA DataInOne == ASSUME NEW b \in SUBSET Data PROVE DataIn(<<b>>) = b
BY DEF DataIn

\* An empty queue has no data.
LEMMA DataInEmpty == DataIn(<<>>) = {}
BY DEF DataIn

\* A queue stays ordered when a younger batch is appended.
LEMMA OrderedAppend ==
  ASSUME NEW q \in Seq(SUBSET Data), NEW b \in SUBSET Data,
         Ordered(q), Before(DataIn(q), b)
  PROVE  Ordered(Append(q, b))
<1>1. /\ DOMAIN Append(q, b) = 1 .. Len(q) + 1
      /\ DOMAIN q = 1 .. Len(q)
      /\ \A k \in 1 .. Len(q) : Append(q, b)[k] = q[k]
      /\ Append(q, b)[Len(q) + 1] = b
  OBVIOUS
<1>2. ASSUME NEW j \in 1 .. Len(q) + 1, NEW k \in 1 .. Len(q) + 1, j < k
      PROVE  Before(Append(q, b)[j], Append(q, b)[k])
  <2>1. CASE k \in 1 .. Len(q)
    BY <1>1, <1>2, <2>1 DEF Ordered
  <2>2. CASE k = Len(q) + 1
    <3>1. j \in 1 .. Len(q)
      BY <1>2, <2>2
    <3>2. q[j] \subseteq DataIn(q)
      BY <1>1, <3>1 DEF DataIn
    <3> QED
      BY <1>1, <2>2, <3>1, <3>2 DEF Before
  <2> QED
    BY <2>1, <2>2
<1> QED
  BY <1>1, <1>2 DEF Ordered

\* The tail of an ordered queue is ordered, and younger than the head.
LEMMA OrderedTail ==
  ASSUME NEW q \in Seq(SUBSET Data), q # <<>>, Ordered(q)
  PROVE  Ordered(Tail(q)) /\ Before(Head(q), DataIn(Tail(q)))
<1>1. /\ Len(q) \in Nat \ {0}
      /\ DOMAIN Tail(q) = 1 .. (Len(q) - 1)
      /\ DOMAIN q = 1 .. Len(q)
      /\ \A k \in 1 .. (Len(q) - 1) : Tail(q)[k] = q[k + 1]
      /\ Head(q) = q[1]
  OBVIOUS
<1>2. Ordered(Tail(q))
  <2>1. ASSUME NEW j \in 1 .. (Len(q) - 1), NEW k \in 1 .. (Len(q) - 1), j < k
        PROVE  Before(Tail(q)[j], Tail(q)[k])
    <3>1. j + 1 \in DOMAIN q /\ k + 1 \in DOMAIN q /\ j + 1 < k + 1
      BY <1>1, <2>1
    <3>2. Before(q[j + 1], q[k + 1])
      BY <3>1 DEF Ordered
    <3> QED
      BY <1>1, <3>2
  <2> QED
    BY <1>1, <2>1 DEF Ordered
<1>3. ASSUME NEW y \in DataIn(Tail(q)) PROVE \A x \in Head(q) : x < y
  <2>1. PICK k \in 1 .. (Len(q) - 1) : y \in Tail(q)[k]
    BY <1>1, <1>3 DEF DataIn
  <2>2. 1 \in DOMAIN q /\ k + 1 \in DOMAIN q /\ 1 < k + 1
    BY <1>1, <2>1
  <2>3. Before(q[1], q[k + 1])
    BY <2>2 DEF Ordered
  <2> QED
    BY <1>1, <2>1, <2>3 DEF Before
<1> QED
  BY <1>2, <1>3 DEF Before

-----------------------------------------------------------------------------
(* What a step of the persister may do to one store.                       *)

\* Stores that take a batch wholly or not at all when they report an outage.
Atomic == Datastore \in {"influx", "postgres"}

Unwritten(i) == dropped[i] \cup rejected[i] \cup lost[i]

\* The data in S leave the program: each is written, or dropped, rejected or lost.
Goes(i, S) ==
  \E P \in SUBSET S : /\ written'[i] = written[i] \cup P
                      /\ Unwritten(i)' = Unwritten(i) \cup (S \ P)

\* The batch in flight joins the queue, part of it may have been put.
Enqueued(i) ==
  /\ \E S \in SUBSET InFlight(i) : (Atomic => S = {}) /\ Goes(i, S)
  /\ retry_queue'[i] = Append(retry_queue[i], InFlight(i))
  /\ InFlight(i)' = {}

\* The batch in flight joins the full queue, whose oldest batch goes.
Displaced(i) ==
  /\ retry_queue[i] # <<>>
  /\ Goes(i, Head(retry_queue[i]))
  /\ retry_queue'[i] = Append(Tail(retry_queue[i]), InFlight(i))
  /\ InFlight(i)' = {}

\* The batch in flight goes.
Delivered(i) ==
  /\ Goes(i, InFlight(i))
  /\ retry_queue[i] = <<>> /\ retry_queue'[i] = <<>>
  /\ InFlight(i)' = {}

\* The oldest batch of the queue goes.
Resent(i) ==
  /\ retry_queue[i] # <<>>
  /\ Goes(i, Head(retry_queue[i]))
  /\ retry_queue'[i] = Tail(retry_queue[i])
  /\ InFlight(i) = {} /\ InFlight(i)' = {}

\* The oldest batch of the queue stays, part of it may have been put.
Tried(i) ==
  /\ retry_queue[i] # <<>>
  /\ \E S \in SUBSET Head(retry_queue[i]) : (Atomic => S = {}) /\ Goes(i, S)
  /\ retry_queue'[i] = retry_queue[i]
  /\ InFlight(i) = {} /\ InFlight(i)' = {}

Untouched(i) ==
  /\ retry_queue'[i] = retry_queue[i]
  /\ written'[i] = written[i]
  /\ Unwritten(i)' = Unwritten(i)
  /\ InFlight(i)' = InFlight(i)

StoreStep(i) ==
  Enqueued(i) \/ Displaced(i) \/ Delivered(i) \/ Resent(i) \/ Tried(i) \/ Untouched(i)

\* Settling a batch makes all of it go.
LEMMA SettleGoes ==
  ASSUME TypeOK, NEW b \in SUBSET Data, NEW r, r.put \subseteq b,
         Settle(cur, b, r), dropped' = dropped
  PROVE  \A i \in Stores : /\ i = cur => Goes(i, b)
                           /\ i # cur => /\ written'[i] = written[i]
                                         /\ Unwritten(i)' = Unwritten(i)
<1>1. /\ written \in [Stores -> SUBSET Data]
      /\ rejected \in [Stores -> SUBSET Data]
      /\ lost \in [Stores -> SUBSET Data]
      /\ cur \in Stores
  BY DEF TypeOK
<1>2. ASSUME NEW i \in Stores, i = cur PROVE Goes(i, b)
  <2>1. written'[i] = written[i] \cup r.put
    BY <1>1, <1>2 DEF Settle
  <2>2. rejected'[i] \cup lost'[i] = rejected[i] \cup lost[i] \cup (b \ r.put)
    BY <1>1, <1>2 DEF Settle
  <2>3. Unwritten(i)' = Unwritten(i) \cup (b \ r.put)
    BY <2>2 DEF Unwritten
  <2> QED
    BY <2>1, <2>3 DEF Goes
<1>3. ASSUME NEW i \in Stores, i # cur
      PROVE  written'[i] = written[i] /\ Unwritten(i)' = Unwritten(i)
  BY <1>1, <1>3 DEF Settle, Unwritten
<1> QED
  BY <1>2, <1>3

\* Keeping a batch makes only the data go that were put.
LEMMA KeepGoes ==
  ASSUME TypeOK, NEW r, Keep(cur, r), dropped' = dropped
  PROVE  \A i \in Stores : /\ i = cur => Goes(i, r.put)
                           /\ i # cur => /\ written'[i] = written[i]
                                         /\ Unwritten(i)' = Unwritten(i)
<1>1. written \in [Stores -> SUBSET Data] /\ cur \in Stores
  BY DEF TypeOK
<1>2. \A i \in Stores : Unwritten(i)' = Unwritten(i)
  BY DEF Keep, Unwritten
<1>3. ASSUME NEW i \in Stores, i = cur PROVE Goes(i, r.put)
  <2>1. written'[i] = written[i] \cup r.put
    BY <1>1, <1>3 DEF Keep
  <2> QED
    BY <1>2, <2>1 DEF Goes
<1>4. ASSUME NEW i \in Stores, i # cur PROVE written'[i] = written[i]
  BY <1>1, <1>4 DEF Keep
<1> QED
  BY <1>2, <1>3, <1>4

\* An atomic store puts nothing of a batch that stays in the program.
LEMMA AtomicOutage ==
  ASSUME Atomic, NEW i \in Stores, NEW b \in SUBSET Data,
         NEW r \in SendResults(i, b)
  PROVE  /\ MustQueue(r) => r.put = {}
         /\ StopsRetry(r) /\ Datastore # "influx" => r.put = {}
BY DEF Atomic, SendResults, Results, Errors, Refusals, Misbehaves, SendToPostgres,
   MustQueue, StopsRetry

\* Ending a loop iteration takes the batch out of flight for that store only.
LEMMA NextStoreInFlight ==
  ASSUME TypeOK, NextStore, pc \in {"deliver", "retry"},
         NEW i \in Stores
  PROVE  /\ pc = "deliver" /\ i = cur => InFlight(i)' = {}
         /\ pc = "deliver" /\ i # cur => InFlight(i)' = InFlight(i)
         /\ pc = "retry" => InFlight(i)' = {} /\ InFlight(i) = {}
<1>1. InfluxHostCount \in Nat /\ cur \in 1 .. InfluxHostCount /\ i \in 1 .. InfluxHostCount
  BY PersisterAssumption DEF TypeOK, Stores
<1>2. CASE cur < InfluxHostCount
  BY <1>1, <1>2 DEF NextStore, InFlight
<1>3. CASE ~(cur < InfluxHostCount)
  BY <1>1, <1>3 DEF NextStore, InFlight
<1> QED
  BY <1>2, <1>3

\* The end of the process.
Dies == Retrying /\ RetryDies

\* Whatever the persister does, short of taking a batch from the channel and of dying,
\* is one of these steps at each store.
LEMMA PersisterStoreStep ==
  ASSUME ControlInv, [Next]_vars, ~Produce, ~Receive, ~Dies, NEW i \in Stores
  PROVE  StoreStep(i)
<1>a. TypeOK
  BY DEF ControlInv, BaseInv
<1>b. retry_queue \in [Stores -> Seq(SUBSET Data)] /\ cur \in Stores /\ msg_arr \in SUBSET Data
  BY <1>a DEF TypeOK
<1>1. ASSUME UNCHANGED <<retry_queue, history>>, InFlight(i)' = InFlight(i)
      PROVE  StoreStep(i)
  BY <1>1 DEF StoreStep, Untouched, Unwritten, history
<1>2. CASE QueueBehindBacklog
  <2>1. InFlight(i) = (IF i = cur THEN msg_arr ELSE InFlight(i)) /\ pc = "deliver"
    BY <1>2, <1>b DEF QueueBehindBacklog, Pushed, InFlight, Stores
  <2>2. CASE i # cur
    <3>1. InFlight(i)' = InFlight(i)
      BY <1>a, <1>2, <2>2, NextStoreInFlight DEF QueueBehindBacklog, Pushed
    <3>2. retry_queue'[i] = retry_queue[i] /\ dropped'[i] = dropped[i]
      BY <1>2, <1>a, <1>b, <2>2 DEF QueueBehindBacklog, Pushed, TypeOK
    <3>3. UNCHANGED <<written, rejected, lost>>
      BY <1>2 DEF QueueBehindBacklog, Pushed
    <3> QED
      BY <3>1, <3>2, <3>3 DEF StoreStep, Untouched, Unwritten
  <2>3. CASE i = cur /\ Full(cur)
    <3>1. InFlight(i)' = {}
      BY <1>a, <1>2, <2>3, NextStoreInFlight DEF QueueBehindBacklog, Pushed
    <3>2. /\ retry_queue'[i] = Append(Tail(retry_queue[i]), InFlight(i))
          /\ dropped'[i] = dropped[i] \cup Head(retry_queue[i])
          /\ retry_queue[i] # <<>>
      <4>1. retry_queue' = [retry_queue EXCEPT ![cur] = Append(Tail(@), msg_arr)]
        BY <1>2, <2>3 DEF QueueBehindBacklog, Pushed
      <4>2. dropped' = [dropped EXCEPT ![cur] = @ \cup Head(retry_queue[cur])]
        BY <1>2, <2>3 DEF QueueBehindBacklog, Pushed
      <4>3. dropped \in [Stores -> SUBSET Data]
        BY <1>a DEF TypeOK
      <4>4. retry_queue[cur] # <<>>
        BY <1>2 DEF QueueBehindBacklog, Pushed, Backlog
      <4>5. InFlight(i) = msg_arr
        BY <2>1, <2>3
      <4>6. retry_queue'[i] = Append(Tail(retry_queue[i]), msg_arr)
        BY <1>b, <2>3, <4>1
      <4>7. dropped'[i] = dropped[i] \cup Head(retry_queue[i])
        BY <1>b, <2>3, <4>2, <4>3
      <4> QED
        BY <2>3, <4>4, <4>5, <4>6, <4>7
    <3>3. Goes(i, Head(retry_queue[i]))
      <4>1. UNCHANGED <<written, rejected, lost>>
        BY <1>2 DEF QueueBehindBacklog, Pushed
      <4>2. Unwritten(i)' = Unwritten(i) \cup (Head(retry_queue[i]) \ {})
        BY <3>2, <4>1 DEF Unwritten
      <4>3. written'[i] = written[i] \cup {}
        BY <4>1
      <4> QED
        BY <4>2, <4>3 DEF Goes
    <3> QED
      BY <3>1, <3>2, <3>3 DEF StoreStep, Displaced
  <2>4. CASE i = cur /\ ~Full(cur)
    <3>1. InFlight(i)' = {}
      BY <1>a, <1>2, <2>4, NextStoreInFlight DEF QueueBehindBacklog, Pushed
    <3>2. /\ retry_queue'[i] = Append(retry_queue[i], InFlight(i))
          /\ dropped'[i] = dropped[i]
      BY <1>2, <1>a, <1>b, <2>1, <2>4 DEF QueueBehindBacklog, Pushed, TypeOK
    <3>3. Goes(i, {})
      BY <1>2, <3>2 DEF QueueBehindBacklog, Pushed, Goes, Unwritten
    <3> QED
      BY <3>1, <3>2, <3>3 DEF StoreStep, Enqueued
  <2> QED
    BY <2>2, <2>3, <2>4
<1>3. CASE SendDirectly
  <2>0. pc = "deliver" /\ retry_queue[cur] = <<>> /\ dropped' = dropped /\ NextStore
    BY <1>3 DEF SendDirectly, Backlog
  <2>1. PICK r \in SendResults(cur, msg_arr) :
             \/ /\ MustQueue(r)
                /\ retry_queue' = [retry_queue EXCEPT ![cur] = Append(@, msg_arr)]
                /\ Keep(cur, r)
             \/ /\ Settle(cur, msg_arr, r)
                /\ UNCHANGED retry_queue
    BY <1>3 DEF SendDirectly
  <2>2. r.put \subseteq msg_arr /\ (Atomic /\ MustQueue(r) => r.put = {})
    <3>1. r.put \subseteq msg_arr
      BY <1>a, <1>b, SendResultsType
    <3>2. ASSUME Atomic, MustQueue(r) PROVE r.put = {}
      BY <1>b, <3>2, AtomicOutage
    <3> QED
      BY <3>1, <3>2
  <2>3. CASE i # cur
    <3>1. InFlight(i)' = InFlight(i)
      BY <1>a, <2>0, <2>3, NextStoreInFlight
    <3>2. retry_queue'[i] = retry_queue[i]
      BY <1>b, <2>1, <2>3
    <3>3. written'[i] = written[i] /\ Unwritten(i)' = Unwritten(i)
      BY <1>a, <1>b, <2>0, <2>1, <2>2, <2>3, SettleGoes, KeepGoes
    <3> QED
      BY <3>1, <3>2, <3>3 DEF StoreStep, Untouched
  <2>4. CASE i = cur
    <3>1. InFlight(i)' = {} /\ InFlight(i) = msg_arr
      BY <1>a, <1>b, <2>0, <2>4, NextStoreInFlight DEF InFlight, Stores
    <3>2. CASE MustQueue(r) /\ Keep(cur, r)
               /\ retry_queue' = [retry_queue EXCEPT ![cur] = Append(@, msg_arr)]
      <4>1. retry_queue'[i] = Append(retry_queue[i], InFlight(i))
        BY <1>b, <2>4, <3>1, <3>2
      <4>2. Goes(i, r.put)
        BY <1>a, <2>0, <2>4, <3>2, KeepGoes
      <4> QED
        BY <2>2, <3>1, <3>2, <4>1, <4>2 DEF StoreStep, Enqueued
    <3>3. CASE Settle(cur, msg_arr, r) /\ UNCHANGED retry_queue
      <4>1. Goes(i, InFlight(i))
        BY <1>a, <1>b, <2>0, <2>2, <2>4, <3>1, <3>3, SettleGoes
      <4> QED
        BY <2>0, <2>4, <3>1, <3>3, <4>1 DEF StoreStep, Delivered
    <3> QED
      BY <2>1, <3>2, <3>3
  <2> QED
    BY <2>3, <2>4
<1>4. CASE RetrySucceeds
  <2>0. /\ pc = "retry" /\ retry_queue[cur] # <<>> /\ dropped' = dropped
        /\ retry_queue' = [retry_queue EXCEPT ![cur] = Tail(@)]
    BY <1>4 DEF RetrySucceeds, Retrying, MayRetry, ControlInv, BaseInv, ControlFlow, Backlog
  <2>1. Head(retry_queue[cur]) \in SUBSET Data
    BY <1>b, <2>0
  <2>2. PICK r \in SendResults(cur, Head(retry_queue[cur])) :
             Settle(cur, Head(retry_queue[cur]), r)
    BY <1>4 DEF RetrySucceeds
  <2>3. r.put \subseteq Head(retry_queue[cur])
    BY <1>a, <1>b, <2>1, SendResultsType
  <2>4. InFlight(i) = {} /\ InFlight(i)' = {}
    <3>1. CASE NextStore
      BY <1>a, <2>0, <3>1, NextStoreInFlight
    <3>2. CASE pc' = pc
      BY <2>0, <3>2 DEF InFlight
    <3> QED
      BY <1>4, <3>1, <3>2 DEF RetrySucceeds, LeaveRetryQueue
  <2>5. /\ i = cur => Goes(i, Head(retry_queue[i]))
        /\ i # cur => written'[i] = written[i] /\ Unwritten(i)' = Unwritten(i)
    BY <1>a, <2>0, <2>1, <2>2, <2>3, SettleGoes
  <2>6. retry_queue'[i] = IF i = cur THEN Tail(retry_queue[i]) ELSE retry_queue[i]
    BY <1>b, <2>0
  <2>7. CASE i = cur
    BY <2>0, <2>4, <2>5, <2>6, <2>7 DEF StoreStep, Resent
  <2>8. CASE i # cur
    BY <2>4, <2>5, <2>6, <2>8 DEF StoreStep, Untouched
  <2> QED
    BY <2>7, <2>8
<1>5. ASSUME pc = "retry", Retrying, pc' # "deliver", UNCHANGED <<retry_queue, dropped>>,
             NEW r \in SendResults(cur, Head(retry_queue[cur])),
             Atomic => MustQueue(r) \/ StopsRetry(r), Keep(cur, r)
      PROVE  StoreStep(i)
  <2>1. retry_queue[cur] # <<>>
    BY <1>5 DEF Retrying, MayRetry, ControlInv, BaseInv, ControlFlow, Backlog
  <2>2. Head(retry_queue[cur]) \in SUBSET Data
    BY <1>b, <2>1
  <2>a. Datastore # "influx"
    BY <1>b, <2>1 DEF ControlInv, NoInfluxBacklog, Backlog
  <2>3. r.put \subseteq Head(retry_queue[cur]) /\ (Atomic => r.put = {})
    BY <1>a, <1>b, <1>5, <2>a, <2>2, SendResultsType, AtomicOutage
  <2>4. InFlight(i) = {} /\ InFlight(i)' = {}
    BY <1>5 DEF InFlight
  <2>5. /\ i = cur => Goes(i, r.put)
        /\ i # cur => written'[i] = written[i] /\ Unwritten(i)' = Unwritten(i)
    BY <1>a, <1>5, KeepGoes
  <2>6. CASE i = cur
    BY <1>5, <2>1, <2>3, <2>4, <2>5, <2>6 DEF StoreStep, Tried
  <2>7. CASE i # cur
    BY <1>5, <2>4, <2>5, <2>7 DEF StoreStep, Untouched
  <2> QED
    BY <2>6, <2>7
<1>6. CASE Retrying /\ RetryFails
  <2>1. pc = "retry" /\ Retrying /\ UNCHANGED <<retry_queue, dropped>> /\ NextStore
    BY <1>6 DEF RetryFails, Retrying, LeaveRetryQueue
  <2>2. pc' # "deliver"
    BY <2>1 DEF NextStore
  <2>3. PICK r \in SendResults(cur, Head(retry_queue[cur])) : StopsRetry(r) /\ Keep(cur, r)
    BY <1>6 DEF RetryFails
  <2> QED
    BY <1>5, <2>1, <2>2, <2>3
<1>8. CASE BeginRetryPass
  BY <1>1, <1>8 DEF BeginRetryPass, InFlight, history
<1>9. CASE SkipStore
  <2>1. InFlight(i)' = InFlight(i)
    BY <1>a, <1>9, NextStoreInFlight DEF SkipStore
  <2> QED
    BY <1>1, <1>9, <2>1 DEF SkipStore
<1>10. ASSUME NEW j \in Stores, HealthChange(j) \/ TenSecondsPass(j) PROVE StoreStep(i)
  BY <1>1, <1>10 DEF HealthChange, TenSecondsPass, control, InFlight, history
<1>11. CASE UNCHANGED vars
  BY <1>1, <1>11 DEF vars, InFlight, history
<1> QED
  BY <1>2, <1>3, <1>4, <1>6, <1>8, <1>9, <1>10, <1>11
  DEF Next, Persister, RetryStops, Dies

\* The dead take no step.
LEMMA DeadStayDead ==
  ASSUME pc = "dead", [Next]_vars
  PROVE  ~Produce /\ ~Receive /\ ~Dies /\ pc' = "dead"
BY DEF Next, Persister, Produce, Receive, QueueBehindBacklog, SendDirectly, BeginRetryPass,
   SkipStore, RetrySucceeds, RetryStops, Retrying, Dies, HealthChange, TenSecondsPass, control,
   vars

\* Only Graphite and the JSON file, which are not atomic, are fatal.
LEMMA AtomicLives == ASSUME Atomic PROVE ~RetryDies
BY DEF Atomic, RetryDies, Reconnects

-----------------------------------------------------------------------------
(* Nothing vanishes, whatever the datastore.                               *)

\* One store's part of NothingVanishes.
Kept(i) == received = InFlight(i) \cup Queued(i) \cup Gone(i)

\* What goes at a store is added to what is gone there.
LEMMA GoesGone ==
  ASSUME NEW i \in Stores, NEW S, Goes(i, S)
  PROVE  Gone(i)' = Gone(i) \cup S
BY DEF Goes, Gone, Unwritten

\* Steps that move data from flight to the queue, and from either to their
\* fate, forget none.
LEMMA StoreStepKeeps ==
  ASSUME TypeOK, NEW i \in Stores, Kept(i), StoreStep(i), received' = received
  PROVE  Kept(i)'
<1>1. retry_queue[i] \in Seq(SUBSET Data) /\ InFlight(i) \in SUBSET Data
  BY DEF TypeOK, InFlight
<1>q. Queued(i)' = DataIn(retry_queue'[i])
  BY DEF Queued
<1>2. CASE Enqueued(i)
  <2>1. Queued(i)' = Queued(i) \cup InFlight(i)
    BY <1>1, <1>2, <1>q, DataInAppend DEF Enqueued, Queued
  <2>2. PICK S \in SUBSET InFlight(i) : Gone(i)' = Gone(i) \cup S
    BY <1>2, GoesGone DEF Enqueued
  <2> QED
    BY <1>2, <2>1, <2>2 DEF Kept, Enqueued
<1>3. CASE Displaced(i)
  <2>1. Tail(retry_queue[i]) \in Seq(SUBSET Data)
    BY <1>1, <1>3 DEF Displaced
  <2>2. Queued(i)' = DataIn(Tail(retry_queue[i])) \cup InFlight(i)
    BY <1>1, <1>3, <1>q, <2>1, DataInAppend DEF Displaced
  <2>3. Queued(i) = Head(retry_queue[i]) \cup DataIn(Tail(retry_queue[i]))
    BY <1>1, <1>3, DataInTail DEF Displaced, Queued
  <2>4. Gone(i)' = Gone(i) \cup Head(retry_queue[i])
    BY <1>3, GoesGone DEF Displaced
  <2> QED
    BY <1>3, <2>2, <2>3, <2>4 DEF Kept, Displaced
<1>4. CASE Delivered(i)
  <2>1. Gone(i)' = Gone(i) \cup InFlight(i)
    BY <1>4, GoesGone DEF Delivered
  <2> QED
    BY <1>4, <1>q, <2>1 DEF Kept, Delivered, Queued
<1>5. CASE Resent(i)
  <2>1. Queued(i) = Head(retry_queue[i]) \cup DataIn(Tail(retry_queue[i]))
    BY <1>1, <1>5, DataInTail DEF Resent, Queued
  <2>2. Gone(i)' = Gone(i) \cup Head(retry_queue[i])
    BY <1>5, GoesGone DEF Resent
  <2> QED
    BY <1>5, <1>q, <2>1, <2>2 DEF Kept, Resent
<1>6. CASE Tried(i)
  <2>1. PICK S \in SUBSET Head(retry_queue[i]) : Gone(i)' = Gone(i) \cup S
    BY <1>6, GoesGone DEF Tried
  <2>2. Head(retry_queue[i]) \subseteq Queued(i)
    BY <1>1, <1>6, DataInTail DEF Tried, Queued
  <2> QED
    BY <1>6, <1>q, <2>1, <2>2 DEF Kept, Tried, Queued
<1>7. CASE Untouched(i)
  BY <1>7, <1>q DEF Kept, Untouched, Gone, Unwritten, Queued
<1> QED
  BY <1>2, <1>3, <1>4, <1>5, <1>6, <1>7 DEF StoreStep

\* Every step keeps the account of what was received.
LEMMA NothingVanishesStep ==
  ASSUME ControlInv, NothingVanishes, [Next]_vars
  PROVE  NothingVanishes'
<1>1. CASE Receive
  <2>1. ASSUME NEW i \in Stores PROVE Kept(i)'
    <3>1. InFlight(i) = {} /\ InFlight(i)' = Head(storage_ch)
      BY <1>1 DEF Receive, InFlight, Stores, ControlInv, BaseInv, ControlFlow
    <3> QED
      BY <1>1, <3>1 DEF Receive, NothingVanishes, Kept, Gone, Queued, history
  <2> QED
    BY <2>1 DEF NothingVanishes, Kept
<1>2. CASE Produce
  BY <1>2 DEF Produce, NothingVanishes, InFlight, Gone, Queued, control, history
<1>4. CASE Dies \/ pc = "dead"
  BY <1>4, DeadStayDead DEF Dies, RetryDies, NothingVanishes
<1>3. CASE ~Produce /\ ~Receive /\ ~Dies /\ pc # "dead"
  <2>1. received' = received
    BY <1>3 DEF Next, Persister, vars, HealthChange, TenSecondsPass, QueueBehindBacklog, Pushed,
       SendDirectly, BeginRetryPass, SkipStore, RetrySucceeds, RetryStops, RetryFails,
       RetryDies
  <2>2. ASSUME NEW i \in Stores PROVE Kept(i)'
    BY <1>3, <2>1, PersisterStoreStep, StoreStepKeeps DEF ControlInv, BaseInv, NothingVanishes, Kept
  <2> QED
    BY <2>2 DEF NothingVanishes, Kept
<1> QED
  BY <1>1, <1>2, <1>3, <1>4

\* As long as the process lives, every batch taken from the channel is at every store
\* in flight, queued or has met a known fate.
THEOREM NothingEverVanishes == Spec => []NothingVanishes
<1>1. Init => NothingVanishes
  BY DataInEmpty DEF Init, NothingVanishes, InFlight, Queued, Gone
<1>2. ControlInv /\ NothingVanishes /\ [Next]_vars => NothingVanishes'
  BY NothingVanishesStep
<1> QED
  BY <1>1, <1>2, ControlInvAlways, PTL DEF Spec

\* Steps that touch neither the channel nor what came from it.
LEMMA ChannelUntouched ==
  ASSUME [Next]_vars, ~Produce, ~Receive, ~Dies
  PROVE  UNCHANGED <<received, storage_ch, produced>>
BY DEF Next, Persister, vars, HealthChange, TenSecondsPass, QueueBehindBacklog, SendDirectly,
   BeginRetryPass, SkipStore, RetrySucceeds, RetryStops, RetryFails, Dies, env

\* What was produced has been received or waits in the channel, while there is one.
ChannelHoldsRest == pc # "dead" => received \cup DataIn(storage_ch) = 1 .. produced

\* Every step keeps ChannelHoldsRest.
LEMMA ChannelHoldsRestStep ==
  ASSUME ControlInv, ChannelHoldsRest, [Next]_vars
  PROVE  ChannelHoldsRest'
<1>a. TypeOK /\ storage_ch \in Seq(SUBSET Data) /\ produced \in Nat /\ MaxItems \in Nat
  BY PersisterAssumption DEF ControlInv, BaseInv, TypeOK
<1>4. CASE Dies \/ pc = "dead"
  BY <1>4, DeadStayDead DEF Dies, RetryDies, ChannelHoldsRest
<1>1. CASE Receive
  <2>1. DataIn(storage_ch) = Head(storage_ch) \cup DataIn(Tail(storage_ch))
    BY <1>a, <1>1, DataInTail DEF Receive
  <2> QED
    BY <1>1, <2>1 DEF Receive, ChannelHoldsRest
<1>2. CASE Produce
  <2>1. PICK k \in 1 .. MaxBatch :
             /\ produced + k <= MaxItems
             /\ produced' = produced + k
             /\ storage_ch' = Append(storage_ch, (produced + 1) .. (produced + k))
    BY <1>2 DEF Produce
  <2> DEFINE b == (produced + 1) .. (produced + k)
  <2>2. b \in SUBSET Data
    BY <1>a, <2>1 DEF Data
  <2>3. DataIn(storage_ch') = DataIn(storage_ch) \cup b
    BY <1>a, <2>1, <2>2, DataInAppend
  <2>4. 1 .. produced' = (1 .. produced) \cup b
    BY <1>a, <2>1
  <2> QED
    BY <1>2, <2>3, <2>4 DEF Produce, ChannelHoldsRest
<1>3. CASE ~Produce /\ ~Receive /\ ~Dies /\ pc # "dead"
  BY <1>3, ChannelUntouched DEF ChannelHoldsRest
<1> QED
  BY <1>1, <1>2, <1>3, <1>4

\* The channel neither loses nor repeats what was produced.
THEOREM ChannelAlwaysHoldsRest == Spec => []ChannelHoldsRest
<1>1. Init => ChannelHoldsRest
  BY DataInEmpty DEF Init, ChannelHoldsRest
<1>2. ControlInv /\ ChannelHoldsRest /\ [Next]_vars => ChannelHoldsRest'
  BY ChannelHoldsRestStep
<1> QED
  BY <1>1, <1>2, ControlInvAlways, PTL DEF Spec

-----------------------------------------------------------------------------
(* Order, and one fate per datum, at a store that is atomic.               *)

\* One store's part of InOrder.
StoreInOrder(i) ==
  /\ Before(Gone(i), Queued(i) \cup InFlight(i))
  /\ Before(Queued(i), InFlight(i))
  /\ Ordered(retry_queue[i])

\* A datum has one fate.
OneFate(i) == written[i] \cap Unwritten(i) = {}

\* The channel is ordered, and younger than what was taken from it.
ChannelInOrder ==
  /\ Ordered(storage_ch)
  /\ Before(received, DataIn(storage_ch))
  /\ DataIn(storage_ch) \subseteq 1 .. produced
  /\ received \subseteq 1 .. produced

\* Data that meet their fate for the first time have one.
LEMMA GoesOneFate ==
  ASSUME NEW i \in Stores, NEW S, Goes(i, S), OneFate(i), Gone(i) \cap S = {}
  PROVE  OneFate(i)'
<1>1. PICK P \in SUBSET S : /\ written'[i] = written[i] \cup P
                            /\ Unwritten(i)' = Unwritten(i) \cup (S \ P)
  BY DEF Goes
<1>2. Gone(i) = written[i] \cup Unwritten(i)
  BY DEF Gone, Unwritten
<1> QED
  BY <1>1, <1>2 DEF OneFate

\* In a set of numbers nothing comes before itself.
LEMMA BeforeDisjoint ==
  ASSUME NEW A \in SUBSET Data, NEW B \in SUBSET Data, Before(A, B)
  PROVE  A \cap B = {}
BY DEF Before, Data

\* Each kind of step keeps the data of a store in order and with one fate.
LEMMA StoreStepOrder ==
  ASSUME TypeOK, Atomic, NEW i \in Stores, StoreStep(i), StoreInOrder(i), OneFate(i)
  PROVE  StoreInOrder(i)' /\ OneFate(i)'
<1>1. /\ retry_queue[i] \in Seq(SUBSET Data)
      /\ InFlight(i) \in SUBSET Data
      /\ Gone(i) \in SUBSET Data
      /\ Queued(i) \in SUBSET Data
  BY DEF TypeOK, InFlight, Gone, Queued, DataIn
<1>q. Queued(i)' = DataIn(retry_queue'[i]) /\ Ordered(retry_queue[i])' = Ordered(retry_queue'[i])
  BY DEF Queued, Ordered, Before
<1>2. CASE Enqueued(i)
  <2>1. Goes(i, {})
    BY <1>2 DEF Enqueued
  <2>2. Gone(i)' = Gone(i) /\ OneFate(i)'
    BY <2>1, GoesGone, GoesOneFate
  <2>3. Queued(i)' = Queued(i) \cup InFlight(i)
    BY <1>1, <1>2, <1>q, DataInAppend DEF Enqueued, Queued
  <2>4. Ordered(retry_queue'[i])
    BY <1>1, <1>2, OrderedAppend DEF Enqueued, Queued, StoreInOrder
  <2> QED
    BY <1>2, <1>q, <2>2, <2>3, <2>4 DEF StoreInOrder, Enqueued, Before
<1>3. CASE Displaced(i)
  <2>0. retry_queue[i] # <<>> /\ Tail(retry_queue[i]) \in Seq(SUBSET Data)
    BY <1>1, <1>3 DEF Displaced
  <2>1. Queued(i) = Head(retry_queue[i]) \cup DataIn(Tail(retry_queue[i]))
    BY <1>1, <2>0, DataInTail DEF Queued
  <2>2. Queued(i)' = DataIn(Tail(retry_queue[i])) \cup InFlight(i)
    BY <1>1, <1>3, <1>q, <2>0, DataInAppend DEF Displaced
  <2>3. Head(retry_queue[i]) \cap Gone(i) = {}
    BY <1>1, <2>1, BeforeDisjoint DEF StoreInOrder
  <2>4. Gone(i)' = Gone(i) \cup Head(retry_queue[i]) /\ OneFate(i)'
    BY <1>3, <2>3, GoesGone, GoesOneFate DEF Displaced
  <2>5. Ordered(Tail(retry_queue[i])) /\ Before(Head(retry_queue[i]), DataIn(Tail(retry_queue[i])))
    BY <1>1, <2>0, OrderedTail DEF StoreInOrder
  <2>6. Before(DataIn(Tail(retry_queue[i])), InFlight(i))
    BY <2>1 DEF StoreInOrder, Before
  <2>7. Ordered(retry_queue'[i])
    BY <1>1, <1>3, <2>0, <2>5, <2>6, OrderedAppend DEF Displaced
  <2> QED
    BY <1>3, <1>q, <2>1, <2>2, <2>4, <2>5, <2>7 DEF StoreInOrder, Displaced, Before
<1>4. CASE Delivered(i)
  <2>1. Gone(i) \cap InFlight(i) = {}
    BY <1>1, BeforeDisjoint DEF StoreInOrder, Before
  <2>2. OneFate(i)'
    BY <1>4, <2>1, GoesOneFate DEF Delivered
  <2>3. Queued(i)' = {} /\ InFlight(i)' = {} /\ retry_queue'[i] = <<>>
    BY <1>4, <1>q, DataInEmpty DEF Delivered
  <2> QED
    BY <1>q, <2>2, <2>3 DEF StoreInOrder, Before, Ordered
<1>5. CASE Resent(i)
  <2>0. retry_queue[i] # <<>>
    BY <1>5 DEF Resent
  <2>1. Queued(i) = Head(retry_queue[i]) \cup DataIn(Tail(retry_queue[i]))
    BY <1>1, <2>0, DataInTail DEF Queued
  <2>2. Head(retry_queue[i]) \cap Gone(i) = {}
    BY <1>1, <2>1, BeforeDisjoint DEF StoreInOrder
  <2>3. Gone(i)' = Gone(i) \cup Head(retry_queue[i]) /\ OneFate(i)'
    BY <1>5, <2>2, GoesGone, GoesOneFate DEF Resent
  <2>4. Ordered(Tail(retry_queue[i])) /\ Before(Head(retry_queue[i]), DataIn(Tail(retry_queue[i])))
    BY <1>1, <2>0, OrderedTail DEF StoreInOrder
  <2> QED
    BY <1>5, <1>q, <2>1, <2>3, <2>4 DEF StoreInOrder, Resent, Before
<1>6. CASE Tried(i)
  <2>1. Goes(i, {})
    BY <1>6 DEF Tried
  <2>2. Gone(i)' = Gone(i) /\ OneFate(i)'
    BY <2>1, GoesGone, GoesOneFate
  <2> QED
    BY <1>6, <1>q, <2>2 DEF StoreInOrder, Tried, Queued
<1>7. CASE Untouched(i)
  BY <1>7, <1>q DEF StoreInOrder, OneFate, Untouched, Gone, Unwritten, Queued
<1> QED
  BY <1>2, <1>3, <1>4, <1>5, <1>6, <1>7 DEF StoreStep

\* The channel stays in order, whatever the store.
LEMMA ChannelInOrderStep ==
  ASSUME ControlInv, ChannelInOrder, [Next]_vars
  PROVE  ChannelInOrder'
<1>a. storage_ch \in Seq(SUBSET Data) /\ produced \in Nat /\ MaxItems \in Nat
  BY PersisterAssumption DEF ControlInv, BaseInv, TypeOK
<1>1. CASE Receive
  <2>1. /\ storage_ch # <<>>
        /\ storage_ch' = Tail(storage_ch)
        /\ received' = received \cup Head(storage_ch)
        /\ produced' = produced
    BY <1>1 DEF Receive
  <2>2. DataIn(storage_ch) = Head(storage_ch) \cup DataIn(Tail(storage_ch))
    BY <1>a, <2>1, DataInTail
  <2>3. Ordered(Tail(storage_ch)) /\ Before(Head(storage_ch), DataIn(Tail(storage_ch)))
    BY <1>a, <2>1, OrderedTail DEF ChannelInOrder
  <2> QED
    BY <2>1, <2>2, <2>3 DEF ChannelInOrder, Before
<1>2. CASE Produce
  <2>1. PICK k \in 1 .. MaxBatch :
             /\ produced + k <= MaxItems
             /\ produced' = produced + k
             /\ storage_ch' = Append(storage_ch, (produced + 1) .. (produced + k))
    BY <1>2 DEF Produce
  <2> DEFINE b == (produced + 1) .. (produced + k)
  <2>2. b \in SUBSET Data
    BY <1>a, <2>1 DEF Data
  <2>3. DataIn(storage_ch') = DataIn(storage_ch) \cup b
    BY <1>a, <2>1, <2>2, DataInAppend
  <2>4. Before(received \cup DataIn(storage_ch), b) /\ b \subseteq 1 .. produced'
    BY <1>a, <2>1 DEF ChannelInOrder, Before
  <2>5. Ordered(storage_ch')
    <3>1. Before(DataIn(storage_ch), b)
      BY <2>4 DEF Before
    <3> QED
      BY <1>a, <2>1, <2>2, <3>1, OrderedAppend DEF ChannelInOrder
  <2>6. received' = received /\ 1 .. produced \subseteq 1 .. produced'
    BY <1>a, <1>2, <2>1 DEF Produce
  <2> QED
    BY <2>3, <2>4, <2>5, <2>6 DEF ChannelInOrder, Before
<1>3. CASE ~Produce /\ ~Receive /\ ~Dies
  BY <1>3, ChannelUntouched DEF ChannelInOrder
<1>4. CASE Dies
  BY <1>4, DataInEmpty DEF Dies, RetryDies, ChannelInOrder, Ordered, Before
<1> QED
  BY <1>1, <1>2, <1>3, <1>4

OrderInv ==
  /\ \A i \in Stores : StoreInOrder(i) /\ OneFate(i)
  /\ ChannelInOrder

\* OrderInv is inductive when the store is atomic.
LEMMA OrderInvStep ==
  ASSUME ControlInv, NothingVanishes, OrderInv, [Next]_vars, Atomic
  PROVE  OrderInv'
<1>a. TypeOK /\ storage_ch \in Seq(SUBSET Data)
  BY DEF ControlInv, BaseInv, TypeOK
<1>b. ChannelInOrder'
  BY ChannelInOrderStep DEF OrderInv
<1>1. CASE Receive
  <2>0. /\ storage_ch # <<>>
        /\ UNCHANGED <<retry_queue, written, dropped, rejected, lost>>
    BY <1>1 DEF Receive, history
  <2>1. DataIn(storage_ch) = Head(storage_ch) \cup DataIn(Tail(storage_ch))
    BY <1>a, <2>0, DataInTail
  <2>2. ASSUME NEW i \in Stores PROVE StoreInOrder(i)' /\ OneFate(i)'
    <3>1. InFlight(i) = {} /\ InFlight(i)' = Head(storage_ch)
      BY <1>1 DEF Receive, InFlight, Stores, ControlInv, BaseInv, ControlFlow
    <3>2. Queued(i)' = Queued(i) /\ Gone(i)' = Gone(i) /\ OneFate(i)'
      BY <2>0 DEF Queued, Gone, OrderInv, OneFate, Unwritten
    <3>3. Gone(i) \cup Queued(i) \subseteq received
      BY <1>1 DEF NothingVanishes, Receive
    <3>4. Before(received, Head(storage_ch))
      BY <2>1 DEF OrderInv, ChannelInOrder, Before
    <3> QED
      BY <2>0, <3>1, <3>2, <3>3, <3>4 DEF OrderInv, StoreInOrder, Before
  <2> QED
    BY <1>b, <2>2 DEF OrderInv
<1>2. CASE Produce
  <2>1. ASSUME NEW i \in Stores PROVE StoreInOrder(i)' /\ OneFate(i)'
    BY <1>2 DEF Produce, OrderInv, StoreInOrder, OneFate, Unwritten, InFlight, Gone, Queued,
       control, history
  <2> QED
    BY <1>b, <2>1 DEF OrderInv
<1>3. CASE ~Produce /\ ~Receive
  <2>1. ASSUME NEW i \in Stores PROVE StoreInOrder(i)' /\ OneFate(i)'
    BY <1>3, <1>a, AtomicLives, PersisterStoreStep, StoreStepOrder DEF OrderInv, Dies
  <2> QED
    BY <1>b, <2>1 DEF OrderInv
<1> QED
  BY <1>1, <1>2, <1>3

\* At an atomic store OrderInv holds in every reachable state.
LEMMA OrderInvAlways == ASSUME Atomic PROVE Spec => []OrderInv
<1>1. Init => OrderInv
  BY DataInEmpty DEF Init, OrderInv, StoreInOrder, OneFate, ChannelInOrder, InFlight, Queued,
     Gone, Unwritten, Before, Ordered
<1>2. ControlInv /\ NothingVanishes /\ OrderInv /\ [Next]_vars => OrderInv'
  BY OrderInvStep
<1> QED
  BY <1>1, <1>2, ControlInvAlways, NothingEverVanishes, PTL DEF Spec

\* A store that takes a batch wholly or not at all gets its data in the order
\* they were produced: a backlog is never overtaken, and a full queue drops the
\* oldest.
THEOREM DeliveredInOrder == ASSUME Atomic PROVE Spec => []InOrder
<1>1. OrderInv => InOrder
  BY DEF OrderInv, StoreInOrder, InOrder
<1> QED
  BY <1>1, OrderInvAlways, PTL

\* At such a store each datum is in exactly one place: none is forgotten, and
\* none is sent again after it was written or given up.
THEOREM EachDatumInOnePlace == ASSUME Atomic PROVE Spec => []ExactlyOnePlace
<1>2. Init => pc # "dead"
  BY DEF Init
<1>3. pc # "dead" /\ [Next]_vars => (pc # "dead")'
  BY AtomicLives DEF Next, Persister, Produce, Receive, QueueBehindBacklog, SendDirectly,
     BeginRetryPass, SkipStore, RetrySucceeds, RetryStops, RetryFails, LeaveRetryQueue, NextStore,
     HealthChange, TenSecondsPass, control, vars
<1>1. pc # "dead" /\ TypeOK /\ NothingVanishes /\ OrderInv => ExactlyOnePlace
  <2> SUFFICES ASSUME pc # "dead", TypeOK, NothingVanishes, OrderInv, NEW i \in Stores
               PROVE  /\ received = InFlight(i) \cup Queued(i) \cup Gone(i)
                      /\ InFlight(i) \cap (Queued(i) \cup Gone(i)) = {}
                      /\ Queued(i) \cap Gone(i) = {}
                      /\ written[i] \cap (dropped[i] \cup rejected[i] \cup lost[i]) = {}
    BY DEF ExactlyOnePlace
  <2>1. /\ InFlight(i) \in SUBSET Data
        /\ Gone(i) \in SUBSET Data
        /\ Queued(i) \in SUBSET Data
    BY DEF TypeOK, InFlight, Gone, Queued, DataIn
  <2>2. /\ Queued(i) \cap InFlight(i) = {}
        /\ Gone(i) \cap (Queued(i) \cup InFlight(i)) = {}
    BY <2>1, BeforeDisjoint DEF OrderInv, StoreInOrder
  <2> QED
    BY <2>2 DEF NothingVanishes, OrderInv, OneFate, Unwritten
<1> QED
  BY <1>1, <1>2, <1>3, OrderInvAlways, NothingEverVanishes, TypeCorrect, PTL DEF Spec

-----------------------------------------------------------------------------
(* The stores do not disturb one another.                                  *)

\* A store that is always up never has a backlog, and has what passed it.
ReliableInv ==
  \A i \in Reliable :
    /\ health[i] = "up"
    /\ retry_queue[i] = <<>>
    /\ received \ InFlight(i) \subseteq written[i]

\* A reliable store has no backlog and everything that passed it, after every step.
LEMMA ReliableInvStep ==
  ASSUME ControlInv, ReliableInv, [Next]_vars
  PROVE  ReliableInv'
<1>a. /\ TypeOK /\ cur \in Stores
      /\ retry_queue \in [Stores -> Seq(SUBSET Data)]
      /\ written \in [Stores -> SUBSET Data]
      /\ health \in [Stores -> {"up", "down", "flaky"}]
      /\ msg_arr \in SUBSET Data
      /\ Reliable \subseteq Stores
  BY PersisterAssumption DEF ControlInv, BaseInv, TypeOK, Stores
<1> SUFFICES ASSUME NEW i \in Reliable
             PROVE  /\ health'[i] = "up"
                    /\ retry_queue'[i] = <<>>
                    /\ received' \ InFlight(i)' \subseteq written'[i]
  BY DEF ReliableInv
<1>b. health[i] = "up" /\ retry_queue[i] = <<>> /\ received \ InFlight(i) \subseteq written[i]
  BY DEF ReliableInv
<1>1. CASE UNCHANGED <<received, retry_queue, written, health>> /\ InFlight(i)' = InFlight(i)
  BY <1>b, <1>1
<1>2. ASSUME NEW j \in Stores, HealthChange(j) PROVE health'[i] = "up"
  BY <1>a, <1>b, <1>2 DEF HealthChange
<1>3. CASE Receive
  <2>1. InFlight(i) = {} /\ InFlight(i)' = Head(storage_ch)
    BY <1>a, <1>3 DEF Receive, InFlight, Stores, ControlInv, BaseInv, ControlFlow
  <2> QED
    BY <1>b, <1>3, <2>1 DEF Receive, history
<1>4. CASE QueueBehindBacklog
  <2>1. i # cur
    BY <1>b, <1>4 DEF QueueBehindBacklog, Pushed, Backlog
  <2>2. InFlight(i)' = InFlight(i)
    BY <1>a, <1>4, <2>1, NextStoreInFlight DEF QueueBehindBacklog, Pushed
  <2>3. retry_queue'[i] = retry_queue[i]
    BY <1>a, <1>4, <2>1 DEF QueueBehindBacklog, Pushed
  <2> QED
    BY <1>b, <1>4, <2>2, <2>3 DEF QueueBehindBacklog, Pushed
<1>5. CASE SendDirectly
  <2>1. PICK r \in SendResults(cur, msg_arr) :
             \/ /\ MustQueue(r)
                /\ retry_queue' = [retry_queue EXCEPT ![cur] = Append(@, msg_arr)]
                /\ Keep(cur, r)
             \/ /\ Settle(cur, msg_arr, r)
                /\ UNCHANGED retry_queue
    BY <1>5 DEF SendDirectly
  <2>2. pc = "deliver" /\ NextStore /\ UNCHANGED <<health, received>>
    BY <1>5 DEF SendDirectly
  <2>3. CASE i = cur
    <3>1. r.err = "nil" /\ r.put = msg_arr
      BY <1>b, <2>3 DEF SendResults
    <3>2. Settle(cur, msg_arr, r) /\ UNCHANGED retry_queue
      BY <2>1, <3>1 DEF MustQueue
    <3>3. written'[i] = written[i] \cup msg_arr
      BY <1>a, <2>3, <3>1, <3>2 DEF Settle
    <3>4. InFlight(i) = msg_arr
      BY <1>a, <2>2, <2>3 DEF InFlight, Stores
    <3> QED
      BY <1>b, <2>2, <3>2, <3>3, <3>4
  <2>4. CASE i # cur
    <3>1. InFlight(i)' = InFlight(i)
      BY <1>a, <2>2, <2>4, NextStoreInFlight
    <3>2. retry_queue'[i] = retry_queue[i]
      BY <1>a, <2>1, <2>4
    <3>3. written'[i] = written[i]
      BY <1>a, <2>1, <2>4 DEF Keep, Settle
    <3> QED
      BY <1>b, <2>2, <3>1, <3>2, <3>3
  <2> QED
    BY <2>3, <2>4
<1>6. CASE RetrySucceeds \/ RetryStops
  <2>1. pc = "retry" /\ retry_queue[cur] # <<>> /\ UNCHANGED <<health, received>>
    BY <1>6 DEF RetrySucceeds, RetryStops, RetryFails, RetryDies, Retrying, MayRetry,
       ControlInv, BaseInv,        ControlFlow, Backlog, env
  <2>2. i # cur
    BY <1>b, <2>1
  <2>3. pc' # "deliver" /\ InFlight(i)' = InFlight(i)
    BY <1>6, <2>1 DEF RetrySucceeds, RetryStops, RetryFails, RetryDies, LeaveRetryQueue, NextStore,
       InFlight
  <2>4. retry_queue'[i] = <<>>
    BY <1>a, <1>b, <1>6, <2>2 DEF RetrySucceeds, RetryStops, RetryFails, RetryDies
  <2>5. written'[i] = written[i]
    BY <1>a, <1>6, <2>2 DEF RetrySucceeds, RetryStops, RetryFails, RetryDies, Keep, Settle
  <2> QED
    BY <1>b, <2>1, <2>3, <2>4, <2>5
<1>7. CASE SkipStore
  <2>1. InFlight(i)' = InFlight(i)
    BY <1>a, <1>7, NextStoreInFlight DEF SkipStore
  <2> QED
    BY <1>1, <1>7, <2>1 DEF SkipStore, env, history
<1>8. ASSUME NEW j \in Stores, HealthChange(j)
      PROVE  UNCHANGED <<received, retry_queue, written>> /\ InFlight(i)' = InFlight(i)
  BY <1>8 DEF HealthChange, control, history, InFlight
<1>9. CASE Produce
  BY <1>1, <1>9 DEF Produce, control, history, InFlight
<1>10. CASE BeginRetryPass
  BY <1>1, <1>10 DEF BeginRetryPass, env, history, InFlight
<1>11. ASSUME NEW j \in Stores, TenSecondsPass(j)
       PROVE  UNCHANGED <<received, retry_queue, written, health>> /\ InFlight(i)' = InFlight(i)
  BY <1>11 DEF TenSecondsPass, control, history, InFlight
<1>12. CASE UNCHANGED vars
  BY <1>1, <1>12 DEF vars, InFlight
<1> QED
  BY <1>b, <1>1, <1>2, <1>3, <1>4, <1>5, <1>6, <1>7, <1>8, <1>9, <1>10, <1>11, <1>12
  DEF Next, Persister

\* A store that is always up has everything that passed it, whatever happens to
\* the other stores.
THEOREM StoresAreIndependent == Spec => []StoresIndependent
<1>1. Init => ReliableInv
  BY PersisterAssumption DEF Init, ReliableInv, InFlight, Stores
<1>2. ControlInv /\ ReliableInv /\ [Next]_vars => ReliableInv'
  BY ReliableInvStep
<1>3. ReliableInv => StoresIndependent
  BY DEF ReliableInv, StoresIndependent
<1> QED
  BY <1>1, <1>2, <1>3, ControlInvAlways, PTL DEF Spec

-----------------------------------------------------------------------------
(* The persister implements Delivery.                                      *)

\* What the refinement maps pending and refused to.
PendingMap == [i \in Stores |-> Pending(i)]
RefusedMap == [i \in Stores |-> rejected[i] \cup lost[i]]

\* Batches behind a queue.
LEMMA Joined ==
  ASSUME NEW q \in Seq(SUBSET Data), NEW m \in SUBSET Data
  PROVE  /\ q \o <<>> = q
         /\ q \o <<m>> = Append(q, m)
         /\ Append(q, m) # <<>> /\ Len(Append(q, m)) = Len(q) + 1
         /\ q = <<>> => Head(Append(q, m)) = m /\ Tail(Append(q, m)) = q
         /\ q # <<>> => /\ Head(Append(q, m)) = Head(q)
                        /\ Tail(Append(q, m)) = Append(Tail(q), m)
OBVIOUS

\* A batch waits for store i in its retry queue, or is in flight to it.
LEMMA PendingIs ==
  ASSUME TypeOK, NEW i \in Stores
  PROVE  /\ pc = "deliver" /\ cur <= i => Pending(i) = Append(retry_queue[i], msg_arr)
         /\ ~(pc = "deliver" /\ cur <= i) => Pending(i) = retry_queue[i]
  BY Joined DEF TypeOK, Pending

\* The end of an iteration takes the batch out of flight to that store only.
LEMMA NextStorePending ==
  ASSUME TypeOK, TypeOK', NextStore, pc \in {"deliver", "retry"}, NEW i \in Stores
  PROVE  /\ i = cur => Pending(i)' = retry_queue'[i]
         /\ i # cur /\ retry_queue'[i] = retry_queue[i] => Pending(i)' = Pending(i)
<1>1. InfluxHostCount \in Nat /\ cur \in 1 .. InfluxHostCount /\ i \in 1 .. InfluxHostCount
  BY PersisterAssumption DEF TypeOK, Stores
<1>2. retry_queue'[i] \in Seq(SUBSET Data)
  BY DEF TypeOK
<1>3. i = cur => ~(pc' = "deliver" /\ cur' <= i)
  BY <1>1 DEF NextStore
<1>4. i # cur =>
        IF pc = "deliver" /\ cur <= i THEN pc' = "deliver" /\ cur' <= i /\ msg_arr' = msg_arr
                                      ELSE ~(pc' = "deliver" /\ cur' <= i)
  BY <1>1 DEF NextStore
<1> QED
  BY <1>2, <1>3, <1>4, Joined DEF Pending

\* Nothing moves if the queues, the batch in flight and the fates stay as they are.
LEMMA NothingMoves ==
  ASSUME UNCHANGED <<received, history>>, \A i \in Stores : Pending(i)' = Pending(i)
  PROVE  UNCHANGED Deliveries!vars
  BY DEF Deliveries!vars, history

\* The oldest batch at the store in turn goes, as the store took it or not.
LEMMA SettleIsLeave ==
  ASSUME TypeOK, NEW r, Settle(cur, Head(Pending(cur)), r), r.put \subseteq Head(Pending(cur)),
         UNCHANGED <<received, dropped>>, Pending(cur) # <<>>,
         \A i \in Stores : Pending(i)' = IF i = cur THEN Tail(Pending(i)) ELSE Pending(i)
  PROVE  Deliveries!Next
<1>1. cur \in Stores /\ rejected \in [Stores -> SUBSET Data] /\ lost \in [Stores -> SUBSET Data]
  BY DEF TypeOK
<1>2. PendingMap' = [PendingMap EXCEPT ![cur] = Tail(@)]
  BY <1>1 DEF PendingMap
<1>3. RefusedMap' = [RefusedMap EXCEPT ![cur] = @ \cup (Head(Pending(cur)) \ r.put)]
  BY <1>1 DEF RefusedMap, Settle
<1>4. written' = [written EXCEPT ![cur] = @ \cup r.put]
  BY DEF Settle
<1>5. PendingMap[cur] = Pending(cur)
  BY <1>1 DEF PendingMap
<1>6. Deliveries!Leave(cur, r.put)
  BY <1>2, <1>3, <1>4, <1>5 DEF Deliveries!Leave, PendingMap, RefusedMap
<1>7. Deliveries!Serve(cur)
  BY <1>5, <1>6 DEF Deliveries!Serve, PendingMap
<1> QED
  BY <1>1, <1>7 DEF Deliveries!Next

\* The oldest batch stays, and the store may have taken part of it.
LEMMA KeepIsTakePart ==
  ASSUME TypeOK, NEW r, Keep(cur, r), r.put \subseteq Head(Pending(cur)),
         Datastore \in {"influx", "postgres"} => r.put = {},
         UNCHANGED <<received, dropped>>, Pending(cur) # <<>>,
         \A i \in Stores : Pending(i)' = Pending(i)
  PROVE  Deliveries!Next
<1>1. cur \in Stores
  BY DEF TypeOK
<1>2. PendingMap' = PendingMap /\ RefusedMap' = RefusedMap
  BY DEF PendingMap, RefusedMap, Keep
<1>3. written' = [written EXCEPT ![cur] = @ \cup r.put]
  BY DEF Keep
<1>4. PendingMap[cur] = Pending(cur)
  BY <1>1 DEF PendingMap
<1>5. Deliveries!TakePart(cur, r.put)
  BY <1>2, <1>3 DEF Deliveries!TakePart, PendingMap, RefusedMap
<1>6. Deliveries!Serve(cur)
  BY <1>4, <1>5 DEF Deliveries!Serve, PendingMap
<1> QED
  BY <1>1, <1>6 DEF Deliveries!Next

\* A batch from the channel is taken up for all stores, which have room for it.
LEMMA ReceiveIsAccept ==
  ASSUME ControlInv, TypeOK', ChannelInOrder, Receive
  PROVE  Deliveries!Next
<1> DEFINE b == Head(storage_ch)
<1>1. /\ storage_ch \in Seq(SUBSET Data) /\ storage_ch # <<>>
      /\ cur = 1 /\ cur' = cur /\ pc = "select" /\ pc' = "deliver"
      /\ UNCHANGED <<retry_queue, history>> /\ msg_arr' = b
      /\ received' = received \cup b
  BY DEF Receive, ControlInv, BaseInv, TypeOK, ControlFlow
<1>2. b \in SUBSET Data /\ DataIn(storage_ch) = b \cup DataIn(Tail(storage_ch))
  BY <1>1, DataInTail
<1>3. \A x \in received, y \in b : x < y
  BY <1>2 DEF ChannelInOrder, Before
<1>4. ASSUME NEW i \in Stores
      PROVE  /\ Pending(i) = retry_queue[i] /\ Len(retry_queue[i]) <= PERSIST_QUEUE_MAX_SIZE
             /\ Pending(i)' = Append(Pending(i), b)
  <2>1. Pending(i) = retry_queue[i] /\ Len(retry_queue[i]) <= PERSIST_QUEUE_MAX_SIZE
    BY <1>1, PendingIs DEF ControlInv, BaseInv, QueueBounded
  <2>2. retry_queue[i] \in Seq(SUBSET Data) /\ cur' <= i
    BY <1>1, PersisterAssumption DEF PersisterAssumption, ControlInv, BaseInv, TypeOK, Stores
  <2> QED
    BY <1>1, <1>2, <2>1, <2>2, Joined DEF Pending
<1>5. PendingMap' = [i \in Stores |-> Append(PendingMap[i], b)]
  BY <1>4 DEF PendingMap
<1>6. \A i \in Stores : Len(PendingMap[i]) <= PERSIST_QUEUE_MAX_SIZE
  BY <1>4 DEF PendingMap
<1>7. RefusedMap' = RefusedMap
  BY <1>1 DEF RefusedMap, history
<1> HIDE DEF b
<1>8. Deliveries!Accept(b)
  BY <1>1, <1>3, <1>5, <1>6, <1>7 DEF Deliveries!Accept, PendingMap, RefusedMap, history
<1> QED
  BY <1>2, <1>8 DEF Deliveries!Next

\* Behind a backlog a batch moves from flight to the queue, which drops its oldest batch
\* if it is full.
LEMMA QueueBehindIsDrop ==
  ASSUME ControlInv, TypeOK', QueueBehindBacklog
  PROVE  [Deliveries!Next]_Deliveries!vars
<1>a. /\ TypeOK /\ cur \in Stores /\ cur <= cur /\ pc = "deliver" /\ NextStore
      /\ retry_queue[cur] \in Seq(SUBSET Data) /\ retry_queue[cur] # <<>>
      /\ msg_arr \in SUBSET Data /\ retry_queue \in [Stores -> Seq(SUBSET Data)]
      /\ UNCHANGED <<received, written, rejected, lost>>
  BY DEF ControlInv, BaseInv, TypeOK, Stores, QueueBehindBacklog, Backlog
<1>b. \A i \in Stores : i # cur => Pending(i)' = Pending(i)
  BY <1>a, NextStorePending DEF QueueBehindBacklog
<1>c. /\ Pending(cur) = Append(retry_queue[cur], msg_arr)
      /\ \A i \in Stores : i = cur => Pending(i)' = retry_queue'[i]
  BY <1>a, PendingIs, NextStorePending
<1>1. CASE Full(cur)
  <2>1. /\ \A i \in Stores : i = cur => Pending(i)' = Tail(Pending(i))
        /\ Head(Pending(cur)) = Head(retry_queue[cur])
    <3>1. retry_queue'[cur] = Append(Tail(retry_queue[cur]), msg_arr)
      BY <1>a, <1>1 DEF QueueBehindBacklog, Pushed
    <3>2. /\ Head(Append(retry_queue[cur], msg_arr)) = Head(retry_queue[cur])
          /\ Tail(Append(retry_queue[cur], msg_arr)) = Append(Tail(retry_queue[cur]), msg_arr)
      BY <1>a, Joined
    <3>3. ASSUME NEW i \in Stores, i = cur PROVE Pending(i)' = Tail(Pending(i))
      BY <1>c, <3>1, <3>2, <3>3
    <3> QED
      BY <1>c, <3>2, <3>3
  <2>2. Len(Pending(cur)) > PERSIST_QUEUE_MAX_SIZE /\ Pending(cur) # <<>>
    BY <1>a, <1>c, <1>1, Joined, PersisterAssumption DEF PersisterAssumption, Full
  <2>3. PendingMap' = [PendingMap EXCEPT ![cur] = Tail(@)] /\ PendingMap[cur] = Pending(cur)
    BY <1>a, <1>b, <2>1 DEF PendingMap
  <2>4. dropped' = [dropped EXCEPT ![cur] = @ \cup Head(PendingMap[cur])]
    BY <1>1, <2>1, <2>3 DEF QueueBehindBacklog
  <2>5. RefusedMap' = RefusedMap
    BY <1>a DEF RefusedMap
  <2>6. Deliveries!Drop(cur)
    BY <1>a, <2>2, <2>3, <2>4, <2>5 DEF Deliveries!Drop, PendingMap, RefusedMap
  <2>7. Deliveries!Serve(cur)
    BY <2>2, <2>3, <2>6 DEF Deliveries!Serve, PendingMap
  <2> QED
    BY <1>a, <2>7 DEF Deliveries!Next
<1>2. CASE ~Full(cur)
  <2>1. \A i \in Stores : i = cur => Pending(i)' = Pending(i)
    BY <1>a, <1>c, <1>2 DEF QueueBehindBacklog, Pushed
  <2>2. dropped' = dropped
    BY <1>2, <1>a DEF QueueBehindBacklog, ControlInv, BaseInv, TypeOK
  <2> QED
    BY <1>a, <1>b, <2>1, <2>2, NothingMoves DEF history
<1> QED
  BY <1>1, <1>2

\* A direct send ends with the batch gone, or in the queue.
LEMMA SendDirectlyServes ==
  ASSUME ControlInv, TypeOK', SendDirectly
  PROVE  Deliveries!Next
<1>a. /\ TypeOK /\ cur \in Stores /\ cur <= cur /\ pc = "deliver" /\ NextStore
      /\ retry_queue[cur] = <<>> /\ retry_queue \in [Stores -> Seq(SUBSET Data)]
      /\ msg_arr \in SUBSET Data /\ UNCHANGED <<received, dropped>>
  BY DEF ControlInv, BaseInv, TypeOK, Stores, SendDirectly, Backlog
<1>1. PICK r \in SendResults(cur, msg_arr) :
        \/ /\ MustQueue(r)
           /\ retry_queue' = [retry_queue EXCEPT ![cur] = Append(@, msg_arr)]
           /\ Keep(cur, r)
        \/ /\ ~MustQueue(r)
           /\ Settle(cur, msg_arr, r)
           /\ UNCHANGED retry_queue
  BY DEF SendDirectly
<1>2. r.put \subseteq msg_arr
  BY <1>a, SendResultsType
<1>3. \A i \in Stores : i # cur => Pending(i)' = Pending(i)
  BY <1>a, <1>1, NextStorePending
<1>4. /\ Pending(cur) = Append(retry_queue[cur], msg_arr)
      /\ Pending(cur) # <<>> /\ Head(Pending(cur)) = msg_arr /\ Tail(Pending(cur)) = <<>>
      /\ \A i \in Stores : i = cur => Pending(i)' = retry_queue'[i]
  <2>1. Pending(cur) = Append(retry_queue[cur], msg_arr)
    BY <1>a, PendingIs
  <2>2. \A i \in Stores : i = cur => Pending(i)' = retry_queue'[i]
    BY <1>a, NextStorePending
  <2>3. /\ Append(<<>>, msg_arr) # <<>>
        /\ Head(Append(<<>>, msg_arr)) = msg_arr /\ Tail(Append(<<>>, msg_arr)) = <<>>
    BY <1>a, Joined
  <2> QED
    BY <1>a, <2>1, <2>2, <2>3
<1>5. CASE MustQueue(r)
  <2>1. Keep(cur, r) /\ \A i \in Stores : i = cur => Pending(i)' = Pending(i)
    BY <1>a, <1>1, <1>4, <1>5
  <2>2. Datastore \in {"influx", "postgres"} => r.put = {}
    BY <1>a, <1>5, AtomicOutage DEF Atomic
  <2> QED
    BY <1>a, <1>2, <1>3, <1>4, <2>1, <2>2, KeepIsTakePart
<1>6. CASE ~MustQueue(r)
  BY <1>a, <1>1, <1>2, <1>3, <1>4, <1>6, SettleIsLeave
<1> QED
  BY <1>5, <1>6

\* What a retry begins with: the oldest batch of a queue that is not one of Influx.
LEMMA RetryBegins ==
  ASSUME ControlInv, Retrying
  PROVE  /\ TypeOK /\ cur \in Stores /\ pc = "retry" /\ retry_queue[cur] # <<>>
         /\ Head(retry_queue[cur]) \in SUBSET Data
         /\ Datastore # "influx"
         /\ \A i \in Stores : Pending(i) = retry_queue[i]
<1>1. TypeOK /\ cur \in Stores /\ pc = "retry" /\ retry_queue[cur] # <<>>
  BY DEF ControlInv, BaseInv, TypeOK, ControlFlow, Retrying, MayRetry, Backlog
<1>2. Head(retry_queue[cur]) \in SUBSET Data
  BY <1>1 DEF TypeOK
<1>3. Datastore # "influx"
  BY <1>1 DEF ControlInv, NoInfluxBacklog, Backlog
<1> QED
  BY <1>1, <1>2, <1>3, PendingIs

\* A resend that goes through, or is refused, is the oldest batch's end.
LEMMA RetrySucceedsLeaves ==
  ASSUME ControlInv, TypeOK', RetrySucceeds
  PROVE  Deliveries!Next
<1>a. /\ TypeOK /\ cur \in Stores /\ pc = "retry" /\ retry_queue[cur] # <<>>
      /\ Head(retry_queue[cur]) \in SUBSET Data
      /\ \A i \in Stores : Pending(i) = retry_queue[i]
  BY RetryBegins DEF RetrySucceeds
<1>1. PICK r \in SendResults(cur, Head(retry_queue[cur])) :
        Settle(cur, Head(retry_queue[cur]), r)
  BY DEF RetrySucceeds
<1>2. r.put \subseteq Head(retry_queue[cur])
  BY <1>a, SendResultsType
<1>3. retry_queue' = [retry_queue EXCEPT ![cur] = Tail(@)] /\ UNCHANGED <<received, dropped>>
  BY DEF RetrySucceeds
<1>4. retry_queue' \in [Stores -> Seq(SUBSET Data)]
  BY DEF TypeOK
<1>5. ASSUME NEW i \in Stores
      PROVE  Pending(i)' = IF i = cur THEN Tail(Pending(i)) ELSE Pending(i)
  <2>1. retry_queue'[i] = IF i = cur THEN Tail(retry_queue[i]) ELSE retry_queue[i]
    BY <1>a, <1>3 DEF TypeOK
  <2>2. pc' # "deliver"
    BY <1>a DEF RetrySucceeds, LeaveRetryQueue, NextStore
  <2>3. Pending(i)' = retry_queue'[i]
    BY <1>4, <2>2, Joined DEF Pending
  <2> QED
    BY <1>a, <2>1, <2>3
<1> QED
  BY <1>a, <1>1, <1>2, <1>3, <1>5, SettleIsLeave

\* One that fails leaves the batch where it is.
LEMMA RetryFailsKeeps ==
  ASSUME ControlInv, TypeOK', Retrying, RetryFails
  PROVE  Deliveries!Next
<1>a. /\ TypeOK /\ cur \in Stores /\ pc = "retry" /\ retry_queue[cur] # <<>>
      /\ Head(retry_queue[cur]) \in SUBSET Data /\ Datastore # "influx"
      /\ \A i \in Stores : Pending(i) = retry_queue[i]
      /\ UNCHANGED <<received, dropped, retry_queue>>
  BY RetryBegins DEF RetryFails
<1>b. pc' # "deliver"
  BY <1>a DEF RetryFails, LeaveRetryQueue, NextStore
<1>c. \A i \in Stores : Pending(i)' = Pending(i)
  BY <1>a, <1>b, Joined DEF TypeOK, Pending
<1>1. PICK r \in SendResults(cur, Head(retry_queue[cur])) : Keep(cur, r) /\ StopsRetry(r)
  BY DEF RetryFails
<1>2. r.put \subseteq Head(retry_queue[cur])
  BY <1>a, SendResultsType
<1>3. Datastore \in {"influx", "postgres"} => r.put = {}
  BY <1>a, <1>1, AtomicOutage DEF Atomic
<1> QED
  BY <1>a, <1>c, <1>1, <1>2, <1>3, KeepIsTakePart

\* One that ends the process leaves nothing anywhere, at a store that is not atomic.
LEMMA RetryDiesEnds ==
  ASSUME ControlInv, TypeOK', Retrying, RetryDies
  PROVE  Deliveries!Next
<1>a. /\ TypeOK /\ cur \in Stores /\ pc = "retry" /\ retry_queue[cur] # <<>>
      /\ Head(retry_queue[cur]) \in SUBSET Data /\ Datastore \notin {"influx", "postgres"}
      /\ \A i \in Stores : Pending(i) = retry_queue[i]
      /\ UNCHANGED <<received, dropped>>
      /\ retry_queue' = [i \in Stores |-> <<>>] /\ pc' = "dead"
  BY RetryBegins, AtomicLives DEF RetryDies, Atomic
<1>b. PICK S \in SUBSET Head(retry_queue[cur]) :
         UNCHANGED <<rejected, lost>> /\ written' = [written EXCEPT ![cur] = @ \cup S]
  <2>1. CASE UNCHANGED <<written, rejected, lost>>
    <3>1. written' = [written EXCEPT ![cur] = @ \cup {}]
      BY <1>a, <2>1 DEF TypeOK
    <3> QED
      BY <2>1, <3>1
  <2>2. ASSUME NEW r \in SendResults(cur, Head(retry_queue[cur])), Keep(cur, r)
        PROVE  \E S \in SUBSET Head(retry_queue[cur]) :
                 UNCHANGED <<rejected, lost>> /\ written' = [written EXCEPT ![cur] = @ \cup S]
    <3>1. r.put \subseteq Head(retry_queue[cur])
      BY <1>a, SendResultsType
    <3> QED
      BY <2>2, <3>1 DEF Keep
  <2> QED
    BY <2>1, <2>2 DEF RetryDies
<1>1. PendingMap' = [i \in Stores |-> <<>>]
  BY <1>a, Joined DEF PendingMap, Pending
<1>2. RefusedMap' = RefusedMap
  BY <1>b DEF RefusedMap
<1>3. PendingMap[cur] = retry_queue[cur]
  BY <1>a DEF PendingMap
<1>4. Deliveries!End(cur, S)
  BY <1>a, <1>b, <1>1, <1>2 DEF Deliveries!End, PendingMap, RefusedMap
<1>5. Deliveries!Serve(cur)
  BY <1>a, <1>3, <1>4 DEF Deliveries!Serve, PendingMap
<1> QED
  BY <1>a, <1>5 DEF Deliveries!Next

\* Steps that change no queue, batch in flight or fate.
LEMMA OthersMoveNothing ==
  ASSUME ControlInv, TypeOK',
         \/ Produce
         \/ \E i \in Stores : HealthChange(i) \/ TenSecondsPass(i)
         \/ BeginRetryPass \/ SkipStore
         \/ UNCHANGED vars
  PROVE  UNCHANGED Deliveries!vars
<1>1. CASE SkipStore
  <2>1. TypeOK /\ pc = "retry" /\ NextStore /\ UNCHANGED <<retry_queue, received, history>>
    BY <1>1 DEF SkipStore, ControlInv, BaseInv
  <2>2. \A i \in Stores : Pending(i)' = Pending(i)
    BY <2>1, PendingIs, NextStorePending
  <2> QED
    BY <2>1, <2>2, NothingMoves
<1>2. CASE BeginRetryPass
  <2>1. \A i \in Stores : Pending(i)' = Pending(i)
    BY <1>2 DEF BeginRetryPass, Pending
  <2> QED
    BY <1>2, <2>1, NothingMoves DEF BeginRetryPass
<1>3. CASE Produce \/ (\E i \in Stores : HealthChange(i) \/ TenSecondsPass(i)) \/ UNCHANGED vars
  <2>1. UNCHANGED <<retry_queue, control, received, history>>
    BY <1>3 DEF Produce, HealthChange, TenSecondsPass, vars, control, history
  <2>2. \A i \in Stores : Pending(i)' = Pending(i)
    BY <2>1 DEF Pending, control
  <2> QED
    BY <2>1, <2>2, NothingMoves
<1> QED
  BY <1>1, <1>2, <1>3

\* Every step of the persister is one of Delivery, or none.
LEMMA DeliveryStep ==
  ASSUME ControlInv, ChannelInOrder, [Next]_vars
  PROVE  [Deliveries!Next]_Deliveries!vars
<1>1. TypeOK'
  BY ControlInvStep DEF ControlInv, BaseInv
<1> QED
  BY <1>1, ReceiveIsAccept, QueueBehindIsDrop, SendDirectlyServes, RetrySucceedsLeaves,
     RetryFailsKeeps, RetryDiesEnds, OthersMoveNothing DEF Next, Persister, RetryStops

\* The persister is a bounded first-in first-out queue for each store, whatever the
\* datastore: a batch is taken up for all stores, leaves in its turn and once, and
\* unsent only if the queue is full.
THEOREM PersisterImplementsDelivery == Spec => ImplementsDelivery
<1>1. Init => ChannelInOrder
  BY DataInEmpty DEF Init, ChannelInOrder, Before, Ordered
<1>2. ControlInv /\ ChannelInOrder /\ [Next]_vars => ChannelInOrder'
  BY ChannelInOrderStep
<1>3. Init => Deliveries!Init
  <2> SUFFICES ASSUME Init PROVE Deliveries!Init
    OBVIOUS
  <2>1. PendingMap = [i \in Stores |-> <<>>]
    BY DEF Init, PendingMap, Pending
  <2>2. RefusedMap = [i \in Stores |-> {}]
    BY DEF Init, RefusedMap
  <2> QED
    BY <2>1, <2>2 DEF Init, Deliveries!Init, PendingMap, RefusedMap
<1>4. ControlInv /\ ChannelInOrder /\ [Next]_vars => [Deliveries!Next]_Deliveries!vars
  BY DeliveryStep
<1> QED
  BY <1>1, <1>2, <1>3, <1>4, ControlInvAlways, PTL DEF Spec, ImplementsDelivery, Deliveries!Spec
=============================================================================
