------------------------ MODULE PostgresStore_proofs ------------------------
(***************************************************************************)
(* What SendToPostgres tells the persister, for any partitioning, keys,    *)
(* retention, and any order of outages, cleanups and errors: a batch is    *)
(* stored wholly or not at all, and not at all when an error is returned   *)
(* (AllOrNothing); and no batch is lost for a missing partition without    *)
(* the next send being told to create its partitions (LossIsNoticed).      *)
(* The types (TypeOK) need more: that a partition is only asked for once   *)
(* the bounds of a batch's periods exist (StartAndEnd), and what is cached *)
(* and to be done while a call is in progress (ProgressInv).               *)
(***************************************************************************)
EXTENDS PostgresStore, WellFoundedInduction, TLAPS

Batches == (SUBSET Rows) \ {{}}

\* What the persister hands over.
PersisterInv ==
  /\ pc \in {"idle", "retry", "ensure", "copy"}
  /\ direct \in BOOLEAN
  /\ backlog \in Seq(Batches)
  /\ pc \in {"ensure", "copy"} =>
       /\ msg \in Batches
       /\ ~direct => backlog # <<>>
       /\ result = NoResult

\* While the transaction is good it has copied the tables that are done.
TransactionInv ==
  /\ pc # "copy" => txn = "none" /\ copied = {} /\ err = "nil"
  /\ pc = "copy" => txn \in {"ok", "aborted", "lost"}
  /\ pc = "copy" /\ txn = "ok" => copied = {r \in msg : MetricOf[r[1]] \notin todo}
  /\ txn = "aborted" /\ err = "nil" => force

IInv == PersisterInv /\ TransactionInv /\ AllOrNothing /\ LossIsNoticed

\* Appending, and removing the oldest batch, keep a backlog of batches one.
LEMMA BacklogFacts ==
  ASSUME NEW s \in Seq(Batches), NEW b \in Batches
  PROVE  /\ Append(s, b) \in Seq(Batches)
         /\ <<b>> \in Seq(Batches)
         /\ s # <<>> => Head(s) \in Batches /\ Tail(s) \in Seq(Batches)
  OBVIOUS

\* So does queueing a batch behind others, which never makes the queue longer than it
\* may be.
LEMMA QueuedFacts ==
  ASSUME NEW S, NEW b \in S, backlog \in Seq(S), backlog # <<>>
  PROVE  /\ Queued(b) \in Seq(S)
         /\ Len(backlog) <= MaxBacklog => Len(Queued(b)) <= MaxBacklog
<1> DEFINE kept == IF Len(backlog) = MaxBacklog THEN Tail(backlog) ELSE backlog
<1>1. MaxBacklog \in Nat /\ Len(backlog) \in Nat
  BY StoreAssumption DEF StoreAssumption
<1>2. Tail(backlog) \in Seq(S) /\ Len(Tail(backlog)) = Len(backlog) - 1
  OBVIOUS
<1>3. kept \in Seq(S)
  BY <1>2
<1>4. Len(backlog) <= MaxBacklog => Len(kept) + 1 <= MaxBacklog
  <2>1. CASE Len(backlog) = MaxBacklog
    <3>1. kept = Tail(backlog)
      BY <2>1
    <3> HIDE DEF kept
    <3> QED BY <1>1, <1>2, <2>1, <3>1
  <2>2. CASE Len(backlog) # MaxBacklog
    <3>1. kept = backlog
      BY <2>2
    <3> HIDE DEF kept
    <3> QED BY <1>1, <2>2, <3>1
  <2> QED BY <2>1, <2>2
<1>5. Append(kept, b) \in Seq(S) /\ Len(Append(kept, b)) = Len(kept) + 1
  BY <1>3
<1>6. Queued(b) = Append(kept, b)
  BY DEF Queued
<1> HIDE DEF kept
<1> QED BY <1>4, <1>5, <1>6

\* The invariant holds at the start.
LEMMA InitIInv == Init => IInv
  BY DEF Init, IInv, PersisterInv, TransactionInv, AllOrNothing, LossIsNoticed, NoResult

\* Returning an error with nothing stored keeps the invariant.
LEMMA ReturnKeeps ==
  ASSUME IInv, pc \in {"ensure", "copy"}, NEW e, NEW put \in {{}, msg}, Return(e, put),
         e # "nil" => put = {},
         e = "nil" => put = msg \/ txn = "lost" \/ force'
  PROVE  IInv'
<1> USE DEF IInv, PersisterInv
<1>1. msg # {} /\ msg \in Batches
  BY DEF Batches
<1>2. result'.stored = (IF put = msg THEN "all" ELSE "none")
      /\ result'.err = e /\ result'.txn = txn
  BY <1>1 DEF Return
<1>3. pc' \in {"idle", "retry"} /\ direct' = TRUE
  BY DEF Return, AfterSend
<1>4. backlog' \in Seq(Batches)
  <2>1. CASE direct /\ e # "nil"
    BY <2>1, <1>1, BacklogFacts DEF Return, AfterSend
  <2>2. CASE ~direct /\ e = "nil"
    BY <2>2, <1>1, BacklogFacts DEF Return, AfterSend
  <2>3. CASE ~(direct /\ e # "nil") /\ ~(~direct /\ e = "nil")
    BY <2>3 DEF Return, AfterSend
  <2> QED BY <2>1, <2>2, <2>3
<1>5. PersisterInv'
  BY <1>3, <1>4
<1>6. TransactionInv'
  BY <1>3 DEF Return, TransactionInv
<1>7. AllOrNothing'
  BY <1>1, <1>2 DEF AllOrNothing
<1>8. LossIsNoticed'
  BY <1>1, <1>2 DEF LossIsNoticed
<1> QED BY <1>5, <1>6, <1>7, <1>8

\* What the world does outside a call leaves what the call relies on alone.
LEMMA WorldKeeps ==
  ASSUME IInv, World
  PROVE  IInv'
<1> USE DEF IInv, PersisterInv, TransactionInv, AllOrNothing, LossIsNoticed, NoResult
<1>1. CASE OutageOrReturn
  <2>1. UNCHANGED <<pc, direct, backlog, msg, todo, copied, err, force, result>>
    BY <1>1 DEF OutageOrReturn, cache
  <2>2. txn' = IF txn = "none" THEN "none" ELSE "lost"
    BY <1>1 DEF OutageOrReturn
  <2> QED BY <2>1, <2>2
<1>2. CASE UNCHANGED <<cache, backlog, pc, call>>
  BY <1>2 DEF cache, call
<1>3. CASE ~OutageOrReturn
  <2>1. UNCHANGED <<cache, backlog, pc, call>>
    BY <1>3 DEF World, PeriodPasses, DropOldPartition, DropAllMetricTables,
       RemoveSingleDbname, EnsureMetricDummy, CleanUp, Drop
  <2> QED BY <2>1, <1>2
<1> QED BY <1>1, <1>3

\* A call begins with a batch that is not empty.
LEMMA CallKeeps ==
  ASSUME IInv, pc \in {"idle", "retry"}, NEW b \in Batches, NEW d \in BOOLEAN,
         Call(b, d), UNCHANGED backlog, ~d => backlog # <<>>
  PROVE  IInv'
<1>1. /\ pc' = "ensure" /\ direct' = d /\ msg' = b /\ result' = NoResult
      /\ UNCHANGED <<force, txn, copied, err, backlog>>
  BY DEF Call, cache
<1> QED
  BY <1>1 DEF IInv, PersisterInv, TransactionInv, AllOrNothing, LossIsNoticed, NoResult

\* The persister receives a batch.
LEMMA ReceiveKeeps ==
  ASSUME IInv, ReceiveBatch
  PROVE  IInv'
<1>1. PICK s \in Shapes :
        /\ Arriving(s) # {}
        /\ \/ Call(Arriving(s), TRUE) /\ UNCHANGED backlog
           \/ /\ backlog # <<>>
              /\ backlog' = Queued(Arriving(s))
              /\ UNCHANGED <<database, cache, pc, call>>
  BY DEF ReceiveBatch
<1> DEFINE b == Arriving(s)
<1>2. b \in Batches
  BY <1>1 DEF Batches, Arriving
<1> HIDE DEF b
<1>3. CASE Call(b, TRUE) /\ UNCHANGED backlog
  BY <1>2, <1>3, CallKeeps DEF ReceiveBatch
<1>4. CASE /\ backlog # <<>>
           /\ backlog' = Queued(b)
           /\ UNCHANGED <<database, cache, pc, call>>
  <2>1. backlog' \in Seq(Batches)
    BY <1>2, <1>4, QueuedFacts DEF IInv, PersisterInv
  <2>2. pc = "idle"
    BY DEF ReceiveBatch
  <2> QED
    BY <1>4, <2>1, <2>2 DEF IInv, PersisterInv, TransactionInv, AllOrNothing,
       LossIsNoticed, NoResult, cache, call
<1> QED BY <1>1, <1>3, <1>4 DEF b

\* The persister resends the oldest batch.
LEMMA ResendKeeps ==
  ASSUME IInv, ResendOldest
  PROVE  IInv'
<1>1. Head(backlog) \in Batches
  BY DEF ResendOldest, IInv, PersisterInv
<1> QED BY <1>1, CallKeeps DEF ResendOldest

\* The ensure functions and the caches.
LEMMA EnsureKeeps ==
  ASSUME IInv, (\E k \in Keys : EnsureStart(k)) \/ EnsureEnd \/ EnsureFails \/ BeginCopy
  PROVE  IInv'
<1>1. CASE (\E k \in Keys : EnsureStart(k)) \/ EnsureEnd
  <2>1. /\ UNCHANGED <<force, backlog, pc, direct, msg, txn, copied, err, result>>
        /\ pc = "ensure"
    BY <1>1 DEF EnsureStart, EnsureEnd
  <2> QED
    BY <2>1 DEF IInv, PersisterInv, TransactionInv, AllOrNothing, LossIsNoticed, NoResult
<1>2. CASE EnsureFails
  <2>1. pc = "ensure" /\ Return("connection", {})
    BY <1>2 DEF EnsureFails
  <2> QED BY <2>1, ReturnKeeps
<1>3. CASE BeginCopy
  <2>1. CASE up
    <3>1. /\ pc' = "copy" /\ txn' = "ok" /\ todo' = {MetricOf[k] : k \in KeysOf(msg)}
          /\ UNCHANGED <<backlog, direct, msg, copied, err, result>>
          /\ pc = "ensure"
      BY <1>3, <2>1 DEF BeginCopy
    <3>2. {r \in msg : MetricOf[r[1]] \notin todo'} = {}
      BY <3>1 DEF KeysOf
    <3>3. TransactionInv'
      BY <3>1, <3>2 DEF IInv, TransactionInv
    <3>4. PersisterInv' /\ AllOrNothing' /\ LossIsNoticed'
      BY <3>1 DEF IInv, PersisterInv, AllOrNothing, LossIsNoticed, NoResult
    <3> QED BY <3>3, <3>4 DEF IInv
  <2>2. CASE ~up
    BY <1>3, <2>2, ReturnKeeps DEF BeginCopy
  <2> QED BY <2>1, <2>2
<1> QED BY <1>1, <1>2, <1>3

\* The transaction.
LEMMA CopyKeeps ==
  ASSUME IInv,
         NEW t \in Metrics,
         \/ PrepareFails(t) \/ CopySucceeds(t) \/ CopyFindsNoPartition(t)
         \/ CopyLosesConnection(t) \/ EndCopy
  PROVE  IInv'
<1>1. CASE PrepareFails(t)
  <2>1. pc = "copy" /\ txn \in {"ok", "aborted", "lost"}
    BY <1>1 DEF PrepareFails, IInv, TransactionInv
  <2>2. \E e \in {"aborted", "lost", "does not exist"} : Return(e, {})
    BY <1>1, <2>1 DEF PrepareFails
  <2>3. PICK e \in {"aborted", "lost", "does not exist"} : Return(e, {})
    BY <2>2
  <2> QED BY <2>1, <2>3, ReturnKeeps
<1>2. ASSUME NEW e, CopyEnds(t, e), pc = "copy",
             IF txn' = "ok" THEN copied' = copied \cup RowsOf(t) /\ txn = "ok"
                            ELSE copied' = copied,
             txn' \in {"ok", "aborted", "lost"},
             txn' = "aborted" /\ e = "nil" => force'
      PROVE  IInv'
  <2>1. /\ todo' = todo \ {t} /\ err' = e
        /\ UNCHANGED <<backlog, pc, direct, msg, result>>
    BY <1>2 DEF CopyEnds
  <2>2. txn' = "ok" => copied' = {r \in msg' : MetricOf[r[1]] \notin todo'}
    BY <1>2, <2>1 DEF IInv, TransactionInv, RowsOf
  <2>3. TransactionInv'
    BY <1>2, <2>1, <2>2 DEF TransactionInv
  <2>4. PersisterInv' /\ AllOrNothing' /\ LossIsNoticed'
    BY <1>2, <2>1 DEF IInv, PersisterInv, AllOrNothing, LossIsNoticed, NoResult
  <2> QED BY <2>3, <2>4 DEF IInv
<1>3. CASE CopySucceeds(t)
  BY <1>2, <1>3 DEF CopySucceeds
<1>4. CASE CopyFindsNoPartition(t)
  BY <1>2, <1>4 DEF CopyFindsNoPartition
<1>5. CASE CopyLosesConnection(t)
  BY <1>2, <1>5 DEF CopyLosesConnection
<1>6. CASE EndCopy
  <2>1. pc = "copy" /\ todo = {} /\ UNCHANGED force
    BY <1>6 DEF EndCopy
  <2>2. txn = "ok" => copied = msg
    BY <2>1 DEF IInv, TransactionInv
  <2> DEFINE put == IF err = "nil" /\ txn = "ok" THEN copied ELSE {}
  <2>3. Return(err, put)
    BY <1>6 DEF EndCopy
  <2>4. err = "nil" => put = msg \/ txn = "lost" \/ force'
    BY <2>1, <2>2 DEF IInv, TransactionInv
  <2>5. put \in {{}, msg}
    BY <2>2
  <2>6. err # "nil" => put = {}
    OBVIOUS
  <2> HIDE DEF put
  <2> QED BY <2>1, <2>3, <2>4, <2>5, <2>6, ReturnKeeps
<1> QED BY <1>1, <1>3, <1>4, <1>5, <1>6

\* Every step keeps the invariant.
LEMMA NextIInv == IInv /\ [Next]_vars => IInv'
<1> SUFFICES ASSUME IInv, [Next]_vars PROVE IInv'
  OBVIOUS
<1>1. CASE World
  BY <1>1, WorldKeeps
<1>2. CASE ReceiveBatch
  BY <1>2, ReceiveKeeps
<1>3. CASE ResendOldest
  BY <1>3, ResendKeeps
<1>4. CASE Send
  <2>1. CASE (\E k \in Keys : EnsureStart(k)) \/ EnsureEnd \/ EnsureFails \/ BeginCopy
    BY <2>1, EnsureKeeps
  <2>2. CASE \E t \in Metrics : \/ PrepareFails(t) \/ CopySucceeds(t)
                                 \/ CopyFindsNoPartition(t) \/ CopyLosesConnection(t)
    BY <2>2, CopyKeeps
  <2>3. CASE EndCopy
    <3>1. PICK k \in Keys : TRUE
      BY <2>3 DEF EndCopy, IInv, PersisterInv, Batches, Rows
    <3>2. MetricOf[k] \in Metrics
      BY DEF Metrics
    <3> QED BY <2>3, <3>2, CopyKeeps
  <2> QED BY <1>4, <2>1, <2>2, <2>3 DEF Send
<1>5. CASE UNCHANGED vars
  BY <1>5 DEF vars, cache, call, IInv, PersisterInv, TransactionInv, AllOrNothing,
     LossIsNoticed, NoResult
<1> QED BY <1>1, <1>2, <1>3, <1>4, <1>5 DEF Next

-----------------------------------------------------------------------------
(* Types.                                                                  *)

\* Sets of numbers have a smallest one, and a largest one if they are bounded.
LEMMA Smallest ==
  ASSUME NEW S \in SUBSET Nat, S # {}
  PROVE  \E x \in S : \A y \in S : x <= y
<1>1. PICK x \in S : \A y \in S : <<y, x>> \notin OpToRel(<, Nat)
  BY NatLessThanWellFounded, WFMin
<1>2. \A y \in S : ~(y < x)
  BY <1>1 DEF OpToRel
<1> QED BY <1>2

LEMMA Largest ==
  ASSUME NEW n \in Nat, NEW S \in SUBSET (0 .. n), S # {}
  PROVE  \E x \in S : \A y \in S : y <= x
<1> DEFINE T == {n - x : x \in S}
<1>0. S \subseteq 0 .. n
  OBVIOUS
<1>1. T \in SUBSET Nat /\ T # {}
  <2>1. \A x \in S : n - x \in Nat
    BY <1>0
  <2>2. T \subseteq Nat
    BY <2>1
  <2>3. PICK x \in S : TRUE
    OBVIOUS
  <2>4. n - x \in T
    BY <2>3
  <2> QED BY <2>2, <2>4
<1>2. PICK t \in T : \A u \in T : t <= u
  BY <1>1, Smallest
<1>3. PICK x \in S : t = n - x
  BY <1>2
<1>4. \A y \in S : n - x <= n - y
  BY <1>2, <1>3
<1> QED BY <1>4

\* The periods of a batch's rows begin and end somewhere.
LEMMA StartAndEnd ==
  ASSUME msg \subseteq Rows, NEW k \in KeysOf(msg)
  PROVE  k \in Keys /\ StartTime(k) \in Periods /\ EndTime(k) \in Periods
<1>1. k \in Keys /\ PeriodsOf(msg, k) \in SUBSET (0 .. MaxPeriod) /\ PeriodsOf(msg, k) # {}
  BY DEF KeysOf, PeriodsOf, Rows, Periods
<1>2. MaxPeriod \in Nat
  BY StoreAssumption DEF StoreAssumption
<1>3. \E w \in PeriodsOf(msg, k) : \A v \in PeriodsOf(msg, k) : w <= v
  BY <1>1, Smallest
<1>4. \E w \in PeriodsOf(msg, k) : \A v \in PeriodsOf(msg, k) : v <= w
  BY <1>1, <1>2, Largest
<1>5. StartTime(k) \in PeriodsOf(msg, k)
  BY <1>3, Zenon DEF StartTime
<1>6. EndTime(k) \in PeriodsOf(msg, k)
  BY <1>4, Zenon DEF EndTime
<1> QED BY <1>1, <1>5, <1>6 DEF Periods

\* While tables and partitions are ensured the batch's keys are to be done, and the key
\* that is being done is cached; while tables are copied they are to be done.
ProgressInv ==
  /\ pc \in {"idle", "retry"} => cur = NoKey
  /\ pc = "ensure" => todo \subseteq KeysOf(msg) /\ cur \in KeysOf(msg) \cup {NoKey}
  /\ pc = "ensure" /\ cur # NoKey => cur \in DOMAIN partitionMap
  /\ pc = "copy" => todo \subseteq Metrics

TypeInv == IInv /\ TypeOK /\ ProgressInv

\* It holds at the start.
LEMMA InitTypeInv == Init => TypeInv
<1> SUFFICES ASSUME Init PROVE TypeInv
  OBVIOUS
<1> USE StoreAssumption DEF Init, StoreAssumption
<1>1. DatabaseTypeOK
  BY DEF DatabaseTypeOK, Periods
<1>2. CacheTypeOK /\ CallTypeOK
  BY DEF CacheTypeOK, CallTypeOK, NoResult, Errors
<1>3. TypeOK /\ ProgressInv
  BY <1>1, <1>2 DEF TypeOK, ProgressInv
<1> QED BY <1>3, InitIInv DEF TypeInv

\* The end of a call of SendToPostgres keeps the types.
LEMMA ReturnTypes ==
  ASSUME TypeInv, pc \in {"ensure", "copy"}, NEW e \in Errors, NEW put, Return(e, put),
         UNCHANGED <<tables, partitions>>, force' \in BOOLEAN
  PROVE  TypeOK' /\ ProgressInv'
<1>1. TypeOK /\ CallTypeOK /\ CacheTypeOK /\ DatabaseTypeOK
  BY DEF TypeInv, TypeOK
<1>2. DatabaseTypeOK'
  BY <1>1 DEF Return, DatabaseTypeOK
<1>3. CacheTypeOK'
  BY <1>1 DEF Return, AfterSend, CacheTypeOK
<1>4. result' \in [err : Errors, txn : {"none", "ok", "aborted", "lost"},
                   stored : {"all", "some", "none"}]
  BY <1>1 DEF Return, CallTypeOK
<1>5. CallTypeOK'
  BY <1>4 DEF Return, CallTypeOK, Errors
<1>6. backlog' \in Seq(SUBSET Rows) /\ Len(backlog') <= MaxBacklog
  <2>1. /\ msg \in SUBSET Rows /\ backlog \in Seq(SUBSET Rows) /\ Len(backlog) <= MaxBacklog
        /\ MaxBacklog \in Nat \ {0}
    BY <1>1, StoreAssumption DEF TypeOK, CallTypeOK, StoreAssumption
  <2>2. <<msg>> \in Seq(SUBSET Rows) /\ Len(<<msg>>) = 1
    BY <2>1
  <2>3. ~direct => backlog # <<>>
    BY DEF TypeInv, IInv, PersisterInv
  <2>4. backlog # <<>> => Tail(backlog) \in Seq(SUBSET Rows) /\ Len(Tail(backlog)) <= MaxBacklog
    BY <2>1
  <2>5. CASE direct /\ e # "nil"
    <3>1. backlog' = <<msg>>
      BY <2>5 DEF Return, AfterSend
    <3>2. 1 <= MaxBacklog
      BY <2>1
    <3> QED BY <2>2, <3>1, <3>2
  <2>6. CASE ~direct /\ e = "nil"
    <3>1. backlog' = Tail(backlog)
      BY <2>6 DEF Return, AfterSend
    <3>2. backlog # <<>>
      BY <2>3, <2>6
    <3> QED BY <2>4, <3>1, <3>2
  <2>7. CASE ~(direct /\ e # "nil") /\ ~(~direct /\ e = "nil")
    BY <2>1, <2>7 DEF Return, AfterSend
  <2> QED BY <2>5, <2>6, <2>7
<1>7. pc' \in {"idle", "retry"} /\ cur' = NoKey
  BY DEF Return, AfterSend
<1> QED BY <1>2, <1>3, <1>5, <1>6, <1>7 DEF TypeOK, ProgressInv

\* The world does.
LEMMA WorldTypes ==
  ASSUME TypeInv, World
  PROVE  TypeOK' /\ ProgressInv'
<1>1. TypeOK /\ CallTypeOK /\ CacheTypeOK /\ DatabaseTypeOK /\ ProgressInv /\ MaxPeriod \in Nat
  BY StoreAssumption DEF StoreAssumption, TypeInv, TypeOK
<1>2. DatabaseTypeOK'
  <2>1. CASE PeriodPasses
    BY <1>1, <2>1 DEF PeriodPasses, DatabaseTypeOK, Periods
  <2>2. CASE OutageOrReturn
    BY <1>1, <2>2 DEF OutageOrReturn, DatabaseTypeOK
  <2>3. CASE DropOldPartition
    BY <1>1, <2>3 DEF DropOldPartition, Drop, DatabaseTypeOK
  <2>4. CASE DropAllMetricTables \/ RemoveSingleDbname
    BY <1>1, <2>4 DEF DropAllMetricTables, RemoveSingleDbname, CleanUp, Drop, DatabaseTypeOK
  <2>5. CASE EnsureMetricDummy
    BY <1>1, <2>5 DEF EnsureMetricDummy, DatabaseTypeOK
  <2> QED BY <2>1, <2>2, <2>3, <2>4, <2>5 DEF World
<1>3. /\ UNCHANGED <<cache, backlog, pc, direct, msg, todo, cur, copied, err, result>>
      /\ txn' \in {txn, "lost"}
  BY DEF World, PeriodPasses, OutageOrReturn, DropOldPartition, DropAllMetricTables,
     RemoveSingleDbname, EnsureMetricDummy, CleanUp, Drop, call
<1>4. CacheTypeOK' /\ CallTypeOK'
  BY <1>1, <1>3 DEF CacheTypeOK, CallTypeOK, cache
<1>5. ProgressInv'
  BY <1>1, <1>3 DEF ProgressInv, cache, KeysOf
<1> QED BY <1>1, <1>2, <1>3, <1>4, <1>5 DEF TypeOK

\* So does the persister when it receives a batch or takes the oldest.
LEMMA PersisterTypes ==
  ASSUME TypeInv, ReceiveBatch \/ ResendOldest
  PROVE  TypeOK' /\ ProgressInv'
<1>1. /\ TypeOK /\ CallTypeOK /\ CacheTypeOK /\ DatabaseTypeOK /\ MaxBacklog \in Nat
      /\ backlog \in Seq(SUBSET Rows) /\ Len(backlog) <= MaxBacklog
  BY StoreAssumption DEF StoreAssumption, TypeInv, TypeOK
<1>2. ASSUME NEW b \in SUBSET Rows, NEW d \in BOOLEAN, Call(b, d), UNCHANGED backlog,
             pc \in {"idle", "retry"}
      PROVE  TypeOK' /\ ProgressInv'
  <2>1. DatabaseTypeOK' /\ CacheTypeOK'
    BY <1>1, <1>2 DEF Call, database, cache, DatabaseTypeOK, CacheTypeOK
  <2>2. KeysOf(b) \subseteq Keys
    BY DEF KeysOf, Rows
  <2>3. copied = {} /\ copied' = {} /\ msg' = b /\ todo' = KeysOf(b)
    BY <1>2 DEF Call, TypeInv, IInv, TransactionInv
  <2>4. NoResult \in [err : Errors, txn : {"none", "ok", "aborted", "lost"},
                      stored : {"all", "some", "none"}]
    BY DEF NoResult, Errors
  <2>5. CallTypeOK'
    BY <1>1, <1>2, <2>2, <2>3, <2>4 DEF Call, CallTypeOK
  <2>6. cur = NoKey => ProgressInv'
    BY <1>2, <2>3 DEF Call, ProgressInv, KeysOf
  <2>7. cur = NoKey
    BY <1>2 DEF TypeInv, ProgressInv
  <2> QED BY <1>1, <1>2, <2>1, <2>5, <2>6, <2>7 DEF TypeOK, Call
<1>3. CASE ReceiveBatch
  <2>1. PICK s \in Shapes :
          \/ Call(Arriving(s), TRUE) /\ UNCHANGED backlog
          \/ /\ backlog # <<>>
             /\ backlog' = Queued(Arriving(s))
             /\ UNCHANGED <<database, cache, pc, call>>
    BY <1>3 DEF ReceiveBatch
  <2> DEFINE b == Arriving(s)
  <2>2. b \in SUBSET Rows /\ pc = "idle"
    BY <1>3 DEF ReceiveBatch, Arriving
  <2> HIDE DEF b
  <2>3. CASE Call(b, TRUE) /\ UNCHANGED backlog
    BY <1>2, <2>2, <2>3
  <2>4. CASE /\ backlog # <<>>
             /\ backlog' = Queued(b)
             /\ UNCHANGED <<database, cache, pc, call>>
    <3>1. backlog' \in Seq(SUBSET Rows) /\ Len(backlog') <= MaxBacklog
      BY <1>1, <2>2, <2>4, QueuedFacts
    <3>2. DatabaseTypeOK' /\ CacheTypeOK' /\ CallTypeOK'
      BY <1>1, <2>4 DEF database, cache, call, DatabaseTypeOK, CacheTypeOK, CallTypeOK
    <3>3. ProgressInv'
      <4>1. cur' = NoKey /\ pc' = "idle"
        BY <2>2, <2>4 DEF TypeInv, ProgressInv, call
      <4> QED BY <4>1 DEF ProgressInv
    <3> QED BY <1>1, <2>4, <3>1, <3>2, <3>3 DEF TypeOK
  <2> QED BY <2>1, <2>3, <2>4 DEF b
<1>4. CASE ResendOldest
  <2>1. Head(backlog) \in SUBSET Rows
    BY <1>1, <1>4 DEF ResendOldest
  <2> QED BY <1>2, <1>4, <2>1 DEF ResendOldest
<1> QED BY <1>3, <1>4

\* Ensuring a table and its partition.
LEMMA EnsureTypes ==
  ASSUME TypeInv, (\E k \in Keys : EnsureStart(k)) \/ EnsureEnd
  PROVE  TypeOK' /\ ProgressInv'
<1>1. /\ TypeOK /\ CallTypeOK /\ CacheTypeOK /\ DatabaseTypeOK /\ ProgressInv
      /\ pc = "ensure" /\ msg \subseteq Rows /\ MaxPeriod \in Nat
  BY StoreAssumption DEF StoreAssumption, TypeInv, TypeOK, CallTypeOK, EnsureStart, EnsureEnd
<1>2. ASSUME NEW k \in KeysOf(msg), NEW w \in Periods, EnsurePartition(k, w)
      PROVE  tables' \subseteq Metrics /\ partitions' \subseteq Rows
  <2>1. k \in Keys
    BY <1>1, StartAndEnd
  <2>2. MetricOf[k] \in Metrics /\ <<k, w>> \in Rows
    BY <2>1 DEF Metrics, Rows
  <2> QED BY <1>1, <1>2, <2>2 DEF EnsurePartition, DatabaseTypeOK
<1>3. ASSUME NEW k \in KeysOf(msg), NEW from \in Periods, NEW w \in Periods,
             partitionMap' = Cached(k, from, w + 1)
      PROVE  /\ DOMAIN partitionMap' = DOMAIN partitionMap \cup {k}
             /\ DOMAIN partitionMap' \subseteq Keys
             /\ \A j \in DOMAIN partitionMap' :
                  partitionMap'[j].from \in Periods /\ partitionMap'[j].to \in 1 .. MaxPeriod + 1
  <2>1. k \in Keys /\ w + 1 \in 1 .. MaxPeriod + 1
    BY <1>1, StartAndEnd DEF Periods
  <2>2. DOMAIN partitionMap' = DOMAIN partitionMap \cup {k}
    BY <1>3 DEF Cached
  <2>3. \A j \in DOMAIN partitionMap' : partitionMap'[j] =
          IF j = k THEN [from |-> from, to |-> w + 1] ELSE partitionMap[j]
    BY <1>3, <2>2 DEF Cached
  <2> QED BY <1>1, <2>1, <2>2, <2>3 DEF CacheTypeOK
<1>4. ASSUME NEW k \in Keys, EnsureStart(k)
      PROVE  TypeOK' /\ ProgressInv'
  <2>1. /\ UNCHANGED <<now, up, cleanups, force, backlog, pc, direct, msg, todo, txn,
                        copied, err, result>>
        /\ cur' = k /\ k \in todo
    BY <1>4 DEF EnsureStart
  <2>2. k \in KeysOf(msg) /\ StartTime(k) \in Periods
    BY <1>1, <2>1, StartAndEnd DEF ProgressInv
  <2>3. CASE AsksForStart(k)
    <3>1. EnsurePartition(k, StartTime(k))
          /\ partitionMap' = Cached(k, StartTime(k), StartTime(k) + 1)
      BY <1>4, <2>3 DEF EnsureStart
    <3>2. tables' \subseteq Metrics /\ partitions' \subseteq Rows
      BY <1>2, <2>2, <3>1
    <3>3. /\ DOMAIN partitionMap' = DOMAIN partitionMap \cup {k}
          /\ DOMAIN partitionMap' \subseteq Keys
          /\ \A j \in DOMAIN partitionMap' :
               partitionMap'[j].from \in Periods /\ partitionMap'[j].to \in 1 .. MaxPeriod + 1
      BY <1>3, <2>2, <3>1
    <3>4. DatabaseTypeOK' /\ CacheTypeOK' /\ CallTypeOK'
      BY <1>1, <1>4, <2>1, <3>2, <3>3 DEF DatabaseTypeOK, CacheTypeOK, CallTypeOK
    <3>5. ProgressInv'
      BY <1>1, <2>1, <2>2, <3>3 DEF ProgressInv, KeysOf
    <3> QED BY <1>1, <2>1, <3>4, <3>5 DEF TypeOK
  <2>4. CASE ~AsksForStart(k)
    <3>1. UNCHANGED <<tables, partitions, partitionMap>> /\ k \in DOMAIN partitionMap
      BY <1>4, <2>4 DEF EnsureStart, AsksForStart, IsKnown
    <3>2. DatabaseTypeOK' /\ CacheTypeOK' /\ CallTypeOK'
      BY <1>1, <1>4, <2>1, <3>1 DEF DatabaseTypeOK, CacheTypeOK, CallTypeOK
    <3>3. ProgressInv'
      BY <1>1, <2>1, <2>2, <3>1 DEF ProgressInv, KeysOf
    <3> QED BY <1>1, <2>1, <3>2, <3>3 DEF TypeOK
  <2> QED BY <2>3, <2>4
<1>5. ASSUME EnsureEnd
      PROVE  TypeOK' /\ ProgressInv'
  <2>1. /\ UNCHANGED <<now, up, cleanups, force, backlog, pc, direct, msg, txn,
                        copied, err, result>>
        /\ cur' = NoKey /\ todo' = todo \ {cur} /\ cur # NoKey
    BY <1>5 DEF EnsureEnd
  <2>2. cur \in KeysOf(msg) /\ EndTime(cur) \in Periods /\ cur \in DOMAIN partitionMap
    BY <1>1, <2>1, StartAndEnd DEF ProgressInv
  <2>3. ProgressInv'
    BY <1>1, <2>1 DEF ProgressInv, KeysOf
  <2>4. CASE AsksForEnd(cur)
    <3>1. EnsurePartition(cur, EndTime(cur))
          /\ partitionMap' = Cached(cur, partitionMap[cur].from, EndTime(cur) + 1)
      BY <1>5, <2>4 DEF EnsureEnd
    <3>2. tables' \subseteq Metrics /\ partitions' \subseteq Rows
      BY <1>2, <2>2, <3>1
    <3>3. partitionMap[cur].from \in Periods
      BY <1>1, <2>2 DEF CacheTypeOK
    <3>4. /\ DOMAIN partitionMap' \subseteq Keys
          /\ \A j \in DOMAIN partitionMap' :
               partitionMap'[j].from \in Periods /\ partitionMap'[j].to \in 1 .. MaxPeriod + 1
      BY <1>3, <2>2, <3>1, <3>3
    <3>5. DatabaseTypeOK' /\ CacheTypeOK' /\ CallTypeOK'
      BY <1>1, <2>1, <3>2, <3>4 DEF DatabaseTypeOK, CacheTypeOK, CallTypeOK
    <3> QED BY <1>1, <2>1, <2>3, <3>5 DEF TypeOK
  <2>5. CASE ~AsksForEnd(cur)
    <3>1. UNCHANGED <<tables, partitions, partitionMap>>
      BY <1>5, <2>5 DEF EnsureEnd
    <3>2. DatabaseTypeOK' /\ CacheTypeOK' /\ CallTypeOK'
      BY <1>1, <2>1, <3>1 DEF DatabaseTypeOK, CacheTypeOK, CallTypeOK
    <3> QED BY <1>1, <2>1, <2>3, <3>2 DEF TypeOK
  <2> QED BY <2>4, <2>5
<1> QED BY <1>4, <1>5

\* A failing ensure function, and the transaction.
LEMMA CopyTypes ==
  ASSUME TypeInv,
         \/ EnsureFails \/ BeginCopy \/ EndCopy
         \/ \E t \in Metrics : \/ PrepareFails(t) \/ CopySucceeds(t)
                               \/ CopyFindsNoPartition(t) \/ CopyLosesConnection(t)
  PROVE  TypeOK' /\ ProgressInv'
<1>1. /\ TypeOK /\ CallTypeOK /\ CacheTypeOK /\ DatabaseTypeOK /\ ProgressInv
      /\ msg \subseteq Rows /\ force \in BOOLEAN
  BY DEF TypeInv, TypeOK, CallTypeOK, CacheTypeOK
<1>2. pc = "copy" => txn \in {"ok", "aborted", "lost"}
  BY DEF TypeInv, IInv, TransactionInv
<1>3. CASE EnsureFails
  <2>1. Return("connection", {}) /\ UNCHANGED <<tables, partitions>> /\ force' = FALSE
        /\ pc = "ensure"
    BY <1>3 DEF EnsureFails
  <2> QED BY <2>1, ReturnTypes DEF Errors
<1>4. CASE BeginCopy
  <2>1. CASE ~up
    <3>1. Return("connection", {}) /\ UNCHANGED <<tables, partitions>> /\ force' = FALSE
          /\ pc = "ensure"
      BY <1>4, <2>1 DEF BeginCopy
    <3> QED BY <3>1, ReturnTypes DEF Errors
  <2>2. CASE up
    <3>1. /\ UNCHANGED <<database, partitionMap, backlog, direct, msg, cur, copied, err, result>>
          /\ force' = FALSE /\ pc' = "copy" /\ txn' = "ok"
          /\ todo' = {MetricOf[k] : k \in KeysOf(msg)}
      BY <1>4, <2>2 DEF BeginCopy
    <3>2. KeysOf(msg) \subseteq Keys
      BY <1>1, StartAndEnd
    <3>3. todo' \subseteq Metrics
      BY <3>1, <3>2 DEF Metrics
    <3>4. DatabaseTypeOK' /\ CacheTypeOK' /\ CallTypeOK'
      BY <1>1, <3>1, <3>3 DEF database, DatabaseTypeOK, CacheTypeOK, CallTypeOK
    <3> QED BY <1>1, <3>1, <3>3, <3>4 DEF TypeOK, ProgressInv
  <2> QED BY <2>1, <2>2
<1>5. CASE EndCopy
  <2> DEFINE put == IF err = "nil" /\ txn = "ok" THEN copied ELSE {}
  <2>1. Return(err, put) /\ UNCHANGED <<tables, partitions, force>> /\ pc = "copy"
    BY <1>5 DEF EndCopy
  <2>2. err \in Errors
    BY <1>1 DEF CallTypeOK
  <2> HIDE DEF put
  <2> QED BY <1>1, <2>1, <2>2, ReturnTypes
<1>6. ASSUME NEW t \in Metrics, PrepareFails(t)
      PROVE  TypeOK' /\ ProgressInv'
  <2>1. PICK e \in {"aborted", "lost", "does not exist"} : Return(e, {})
    BY <1>2, <1>6 DEF PrepareFails
  <2>2. e \in Errors /\ UNCHANGED <<tables, partitions, force>> /\ pc = "copy"
    BY <1>6 DEF PrepareFails, Errors
  <2> QED BY <1>1, <2>1, <2>2, ReturnTypes
<1>7. ASSUME NEW t \in Metrics, NEW e \in Errors, CopyEnds(t, e), pc = "copy",
             copied' \in {copied, copied \cup RowsOf(t)}, txn' \in {txn, "aborted"},
             force' \in BOOLEAN
      PROVE  TypeOK' /\ ProgressInv'
  <2>1. /\ UNCHANGED <<database, partitionMap, backlog, pc, direct, msg, cur, result>>
        /\ err' = e /\ todo' \subseteq todo
    BY <1>7 DEF CopyEnds
  <2>2. copied' \subseteq msg'
    BY <1>1, <1>7, <2>1 DEF CallTypeOK, RowsOf
  <2>3. DatabaseTypeOK' /\ CacheTypeOK'
    BY <1>1, <1>7, <2>1 DEF database, DatabaseTypeOK, CacheTypeOK
  <2>4. CallTypeOK'
    BY <1>1, <1>7, <2>1, <2>2 DEF CallTypeOK
  <2>5. ProgressInv'
    BY <1>1, <1>7, <2>1 DEF ProgressInv
  <2> QED BY <1>1, <2>1, <2>3, <2>4, <2>5 DEF TypeOK
<1>8. ASSUME NEW t \in Metrics,
             CopySucceeds(t) \/ CopyFindsNoPartition(t) \/ CopyLosesConnection(t)
      PROVE  TypeOK' /\ ProgressInv'
  <2>1. PICK e \in Errors : CopyEnds(t, e)
    BY <1>8 DEF CopySucceeds, CopyFindsNoPartition, CopyLosesConnection, Errors
  <2>2. /\ pc = "copy" /\ force' \in BOOLEAN /\ txn' \in {txn, "aborted"}
        /\ copied' \in {copied, copied \cup RowsOf(t)}
    BY <1>1, <1>8 DEF CopySucceeds, CopyFindsNoPartition, CopyLosesConnection
  <2> QED BY <1>7, <2>1, <2>2
<1> QED BY <1>3, <1>4, <1>5, <1>6, <1>8

\* Every step keeps the types.
LEMMA NextTypeInv == TypeInv /\ [Next]_vars => TypeInv'
<1> SUFFICES ASSUME TypeInv, [Next]_vars PROVE TypeInv'
  OBVIOUS
<1>1. IInv'
  BY NextIInv DEF TypeInv
<1>2. TypeOK' /\ ProgressInv'
  <2>1. CASE World
    BY <2>1, WorldTypes
  <2>2. CASE ReceiveBatch \/ ResendOldest
    BY <2>2, PersisterTypes
  <2>3. CASE Send
    BY <2>3, EnsureTypes, CopyTypes DEF Send
  <2>4. CASE UNCHANGED vars
    BY <2>4 DEF vars, database, cache, call, TypeInv, TypeOK, DatabaseTypeOK, CacheTypeOK,
       CallTypeOK, ProgressInv, KeysOf
  <2> QED BY <2>1, <2>2, <2>3, <2>4 DEF Next
<1> QED BY <1>1, <1>2 DEF TypeInv

-----------------------------------------------------------------------------
\* What SendToPostgres and its caches keep has its type, and the retry queue is never
\* longer than its bound, although a batch whose direct send failed is queued without
\* a look at the queue's length.
THEOREM StoreTypesOK == Spec => []TypeOK
<1>1. TypeInv => TypeOK
  BY DEF TypeInv
<1> QED BY InitTypeInv, NextTypeInv, <1>1, PTL DEF Spec

\* SendToPostgres stores a batch wholly or not at all, and not at all when it returns
\* an error: resending a batch never stores it twice.
THEOREM StoredWhollyOrNot == Spec => []AllOrNothing
<1>1. IInv => AllOrNothing
  BY DEF IInv
<1> QED BY InitIInv, NextIInv, <1>1, PTL DEF Spec

\* A batch that SendToPostgres gives up without an error was lost with the connection,
\* or the next send is told to create its partitions.
THEOREM MissingPartitionIsNoticed == Spec => []LossIsNoticed
<1>1. IInv => LossIsNoticed
  BY DEF IInv
<1> QED BY InitIInv, NextIInv, <1>1, PTL DEF Spec

=============================================================================
