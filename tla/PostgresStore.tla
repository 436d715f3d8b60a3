--------------------------- MODULE PostgresStore ---------------------------
(***************************************************************************)
(* The Postgres metrics store: SendToPostgres with its caches of known     *)
(* partitions (pgwatch2.go), the functions of the metrics database that    *)
(* create partitions, and those that take them away: the retention job and *)
(* the administrator's cleanups (sql/metric_store).                        *)
(*                                                                         *)
(* Time is counted in periods, the week that one partition holds, or the   *)
(* day for realtime metrics.  A row is a key and a period; a key is what a *)
(* partition cache is indexed by: a metric, or a metric and a database.  A *)
(* batch is a set of rows.                                                 *)
(***************************************************************************)
EXTENDS Naturals, Sequences

CONSTANTS
  PGSchemaType,     \* how the metrics database is partitioned
  Keys,
  MetricOf,         \* MetricOf[k]: the metric, and top level table, of key k
  DbnameOf,         \* DbnameOf[k]: the database whose rows key k stands for
  Realtime,         \* the keys of metrics with suffix _realtime
  PGRetentionDays,  \* in periods
  Cleanups,         \* what the administrator may do, each once
  MaxBacklog,       \* PERSIST_QUEUE_MAX_SIZE
  MaxPeriod,        \* bounds: time, and the batches that arrive, whose rows are
  Shapes            \* given as a key and the periods since it was gathered

ASSUME StoreAssumption ==
  /\ PGSchemaType \in {"metric", "metric-time", "metric-dbname-time", "timescale"}
  /\ Realtime \subseteq Keys
  /\ Shapes \subseteq SUBSET (Keys \X Nat)
  /\ PGRetentionDays \in Nat
  /\ Cleanups \subseteq {"tables", "dbname"}
  /\ MaxPeriod \in Nat
  /\ MaxBacklog \in Nat \ {0}

Periods == 0 .. MaxPeriod
Rows == Keys \X Periods
Metrics == {MetricOf[k] : k \in Keys}

VARIABLES
  \* the metrics database and the world
  now, up,
  cleanups,      \* what the administrator has done
  tables,        \* the top level tables
  partitions,    \* the time partitions, each a key and a period
  \* the program's globals
  partitionMap,  \* the cached bounds of each key it knows
  force,         \* forceRecreatePGMetricPartitions
  \* the persister
  backlog,       \* the retry queue, oldest first
  pc,            \* "idle", "retry", or "ensure", "copy" in SendToPostgres
  direct,        \* whether msg is sent directly, or from the backlog
  \* SendToPostgres
  msg,
  todo,          \* the keys to be ensured, then the metrics to be copied
  cur,           \* the key whose first partition is ensured
  txn,           \* "none", "ok", "aborted" by an error, "lost" with its connection
  copied,        \* the rows copied in the transaction
  err,           \* err after the last table
  result         \* history: what became of the last batch

database == <<now, up, cleanups, tables, partitions>>
cache == <<partitionMap, force>>
call == <<direct, msg, todo, cur, txn, copied, err, result>>
vars == <<database, cache, backlog, pc, call>>

NoKey == "none"
NoResult == [err |-> "nil", txn |-> "none", stored |-> "all"]

Init ==
  /\ now = 0
  /\ up = TRUE
  /\ cleanups = {}
  /\ tables = {}
  /\ partitions = {}
  /\ partitionMap = [k \in {} |-> 0]
  /\ force = FALSE
  /\ backlog = <<>>
  /\ pc = "idle"
  /\ direct = TRUE
  /\ msg = {}
  /\ todo = {}
  /\ cur = NoKey
  /\ txn = "none"
  /\ copied = {}
  /\ err = "nil"
  /\ result = NoResult

-----------------------------------------------------------------------------
(* The metrics database.                                                   *)

\* Keys whose table is partitioned by time: timescale does so by itself, but for
\* realtime metrics.
TimePartitioned(k) ==
  \/ PGSchemaType \in {"metric-time", "metric-dbname-time"}
  \/ PGSchemaType = "timescale" /\ k \in Realtime

PeriodPasses ==
  /\ now < MaxPeriod
  /\ now' = now + 1
  /\ UNCHANGED <<up, cleanups, tables, partitions, cache, backlog, pc, call>>

\* The connection to the metrics database goes, with an open transaction, and
\* comes back.
OutageOrReturn ==
  /\ up' = ~up
  /\ txn' = IF txn = "none" THEN "none" ELSE "lost"
  /\ UNCHANGED <<now, cleanups, tables, partitions, cache, backlog, pc,
                 direct, msg, todo, cur, copied, err, result>>

\* A transaction keeps the tables it has copied to from being dropped.
Locked(t) ==
  /\ pc = "copy" /\ txn = "ok"
  /\ t \notin todo
  /\ \E r \in msg : MetricOf[r[1]] = t

Drop(ts, ps) ==
  /\ up
  /\ ~ \E t \in ts \cup {MetricOf[p[1]] : p \in ps} : Locked(t)
  /\ tables' = tables \ ts
  /\ partitions' = partitions \ ps
  /\ UNCHANGED <<now, up, cache, backlog, pc, call>>

\* The retention job drops the partitions that ended before the threshold, for
\* realtime metrics before today.
IsOld(k, w) == w + (IF k \in Realtime THEN 1 ELSE PGRetentionDays) < now

DropOldPartition ==
  /\ \E p \in partitions : IsOld(p[1], p[2]) /\ Drop({}, {p})
  /\ UNCHANGED cleanups

CleanUp(what, ts, ps) ==
  /\ what \in Cleanups \ cleanups
  /\ cleanups' = cleanups \cup {what}
  /\ Drop(ts, ps)

\* admin.drop_all_metric_tables()
DropAllMetricTables ==
  /\ tables # {}
  /\ CleanUp("tables", tables, partitions)

\* admin.remove_single_dbname_data(dbname): where there are partitions by database
\* it drops them, elsewhere it deletes rows.
RemoveSingleDbname ==
  /\ PGSchemaType = "metric-dbname-time"
  /\ \E k \in {p[1] : p \in partitions} :
       CleanUp("dbname", {}, {p \in partitions : DbnameOf[p[1]] = DbnameOf[k]})

\* A gatherer that starts has the top level table created.
EnsureMetricDummy ==
  /\ up
  /\ \E t \in Metrics \ tables : tables' = tables \cup {t}
  /\ UNCHANGED <<now, up, cleanups, partitions, cache, backlog, pc, call>>

World ==
  \/ PeriodPasses
  \/ OutageOrReturn
  \/ DropOldPartition
  \/ DropAllMetricTables
  \/ RemoveSingleDbname
  \/ EnsureMetricDummy

-----------------------------------------------------------------------------
(* The persister's two calls of SendToPostgres.                            *)

KeysOf(b) == {r[1] : r \in b}

Call(b, isDirect) ==
  /\ pc' = "ensure"
  /\ direct' = isDirect
  /\ msg' = b
  /\ todo' = KeysOf(b)
  /\ result' = NoResult
  /\ UNCHANGED <<database, cache, cur, txn, copied, err>>

\* The batch of a shape that arrives now.
Arriving(s) == {r \in Rows : <<r[1], now - r[2]>> \in s}

\* What the queue is after batch b was put into it: when it is full the oldest batch
\* is dropped.
Queued(b) == Append(IF Len(backlog) = MaxBacklog THEN Tail(backlog) ELSE backlog, b)

\* A batch arrives: it is sent, or queued behind the backlog.
ReceiveBatch ==
  /\ pc = "idle"
  /\ \E b \in {Arriving(s) : s \in Shapes} :
       /\ b # {}
       /\ \/ /\ backlog = <<>>
             /\ Call(b, TRUE)
             /\ UNCHANGED backlog
          \/ /\ backlog # <<>>
             /\ backlog' = Queued(b)
             /\ UNCHANGED <<database, cache, pc, call>>

\* ProcessRetryQueue, which goes on while the resends succeed.
ResendOldest ==
  /\ pc \in {"idle", "retry"}
  /\ backlog # <<>>
  /\ Call(Head(backlog), FALSE)
  /\ UNCHANGED backlog

\* SendToPostgres has returned error e: a direct send that failed is queued, and
\* makes the program forget the partitions if a table did not exist.
AfterSend(e) ==
  /\ backlog' = CASE direct /\ e # "nil" -> <<msg>>
                  [] ~direct /\ e = "nil" -> Tail(backlog)
                  [] OTHER -> backlog
  /\ partitionMap' = IF direct /\ e = "does not exist" THEN [k \in {} |-> 0] ELSE partitionMap
  /\ pc' = IF ~direct /\ e = "nil" /\ Len(backlog) > 1 THEN "retry" ELSE "idle"

\* ... with these rows put in the database.
Return(e, put) ==
  /\ result' = [err |-> e, txn |-> txn,
               stored |-> CASE put = msg -> "all" [] put = {} -> "none" [] OTHER -> "some"]
  /\ msg' = {} /\ todo' = {} /\ cur' = NoKey /\ copied' = {}
  /\ txn' = "none" /\ err' = "nil" /\ direct' = TRUE
  /\ AfterSend(e)
  /\ UNCHANGED <<now, up, cleanups>>

-----------------------------------------------------------------------------
(* SendToPostgres: EnsureMetric, EnsureMetricTime, EnsureMetricDbnameTime  *)
(* or EnsureMetricTimescale, by the schema type.                           *)

PeriodsOf(b, k) == {r[2] : r \in {x \in b : x[1] = k}}
StartTime(k) == CHOOSE w \in PeriodsOf(msg, k) : \A v \in PeriodsOf(msg, k) : w <= v
EndTime(k)   == CHOOSE w \in PeriodsOf(msg, k) : \A v \in PeriodsOf(msg, k) : v <= w

IsKnown(k) == k \in DOMAIN partitionMap

\* Whether the first call of the database's ensure function is made for k, and
\* the second, for the end of its rows.
AsksForStart(k) ==
  \/ ~IsKnown(k)
  \/ IsKnown(k) /\ TimePartitioned(k) /\ StartTime(k) < partitionMap[k].from
  \/ PGSchemaType # "timescale" /\ force
  \/ TimePartitioned(k) /\ force

AsksForEnd(k) == TimePartitioned(k) /\ (EndTime(k) >= partitionMap[k].to \/ force)

\* The ensure function creates what is missing of table and partition.
EnsurePartition(k, w) ==
  /\ tables' = tables \cup {MetricOf[k]}
  /\ partitions' = IF TimePartitioned(k) THEN partitions \cup {<<k, w>>} ELSE partitions

Cached(k, from, to) == [j \in DOMAIN partitionMap \cup {k} |->
  IF j = k THEN [from |-> from, to |-> to] ELSE partitionMap[j]]

EnsureStart(k) ==
  /\ pc = "ensure" /\ cur = NoKey /\ k \in todo
  /\ AsksForStart(k) => up
  /\ cur' = k
  /\ IF AsksForStart(k)
       THEN /\ EnsurePartition(k, StartTime(k))
            /\ partitionMap' = Cached(k, StartTime(k), StartTime(k) + 1)
       ELSE UNCHANGED <<tables, partitions, partitionMap>>
  /\ UNCHANGED <<now, up, cleanups, force, backlog, pc, direct, msg, todo, txn, copied, err,
                 result>>

EnsureEnd ==
  /\ pc = "ensure" /\ cur # NoKey
  /\ AsksForEnd(cur) => up
  /\ cur' = NoKey
  /\ todo' = todo \ {cur}
  /\ IF AsksForEnd(cur)
       THEN /\ EnsurePartition(cur, EndTime(cur))
            /\ partitionMap' = Cached(cur, partitionMap[cur].from, EndTime(cur) + 1)
       ELSE UNCHANGED <<tables, partitions, partitionMap>>
  /\ UNCHANGED <<now, up, cleanups, force, backlog, pc, direct, msg, txn, copied, err, result>>

\* The call of the ensure function fails.
EnsureFails ==
  /\ pc = "ensure" /\ ~up
  /\ IF cur = NoKey THEN \E k \in todo : AsksForStart(k) ELSE AsksForEnd(cur)
  /\ force' = FALSE
  /\ Return("connection", {})
  /\ UNCHANGED <<tables, partitions>>

-----------------------------------------------------------------------------
(* SendToPostgres: the transaction, with a COPY for each metric.           *)

BeginCopy ==
  /\ pc = "ensure" /\ cur = NoKey /\ todo = {}
  /\ force' = FALSE
  /\ \/ /\ up
        /\ pc' = "copy"
        /\ txn' = "ok"
        /\ todo' = {MetricOf[k] : k \in KeysOf(msg)}
        /\ UNCHANGED <<database, partitionMap, backlog, direct, msg, cur, copied, err, result>>
     \/ /\ ~up
        /\ Return("connection", {})
        /\ UNCHANGED <<tables, partitions>>

\* Mutant of PrepareFails: the deferred function sees no error and commits.
PrepareFailsCommitting(t) ==
  /\ pc = "copy" /\ t \in todo
  /\ \/ txn # "ok" /\ Return(txn, {})
     \/ txn = "ok" /\ t \notin tables /\ Return("does not exist", copied)
  /\ UNCHANGED <<tables, partitions, force>>

\* The COPY of a table cannot be prepared: SendToPostgres gives up.
PrepareFails(t) ==
  /\ pc = "copy" /\ t \in todo
  /\ \/ txn # "ok" /\ Return(txn, {})
     \/ txn = "ok" /\ t \notin tables /\ Return("does not exist", {})
  /\ UNCHANGED <<tables, partitions, force>>

HasPartition(r) == TimePartitioned(r[1]) => r \in partitions

RowsOf(t) == {r \in msg : MetricOf[r[1]] = t}
MissesPartition(t) == \E r \in RowsOf(t) : ~HasPartition(r)

\* The COPY of a table ends with e, what stmt.Close() returns.
CopyEnds(t, e) ==
  /\ todo' = todo \ {t}
  /\ err' = e
  /\ UNCHANGED <<database, partitionMap, backlog, pc, direct, msg, cur, result>>

CopySucceeds(t) ==
  /\ pc = "copy" /\ t \in todo \cap tables
  /\ txn = "ok" /\ ~MissesPartition(t)
  /\ copied' = copied \cup RowsOf(t)
  /\ CopyEnds(t, "nil")
  /\ UNCHANGED <<force, txn>>

\* Mutant of CopyFindsNoPartition: the error is not looked at.
CopyFailsUnnoticed(t) ==
  /\ pc = "copy" /\ t \in todo \cap tables
  /\ txn = "ok" /\ MissesPartition(t)
  /\ txn' = "aborted"
  /\ CopyEnds(t, "nil")
  /\ UNCHANGED <<copied, force>>

\* The server finds no partition for a row.  The last Exec of the COPY, which waits
\* for the server, sees it and is the one that looks for this error; it has closed
\* the statement, so that Close() has nothing to report, unless the error came
\* before it.  When the error comes while rows are sent only Close() reports it.
CopyFindsNoPartition(t) ==
  /\ pc = "copy" /\ t \in todo \cap tables
  /\ txn = "ok" /\ MissesPartition(t)
  /\ txn' = "aborted"
  /\ \/ force' = TRUE /\ CopyEnds(t, "nil")
     \/ force' = TRUE /\ CopyEnds(t, "no partition")
     \/ UNCHANGED force /\ CopyEnds(t, "no partition")
  /\ UNCHANGED copied

\* The connection was lost after the COPY was prepared.
CopyLosesConnection(t) ==
  /\ pc = "copy" /\ t \in todo
  /\ txn = "lost"
  /\ \E e \in {"nil", "lost"} : CopyEnds(t, e)
  /\ UNCHANGED <<force, txn, copied>>

\* Mutant of EndCopy: forceRecreatePGMetricPartitions is reset when all is done.
EndCopyResetting ==
  /\ pc = "copy" /\ todo = {}
  /\ Return(err, IF err = "nil" /\ txn = "ok" THEN copied ELSE {})
  /\ force' = FALSE
  /\ UNCHANGED <<tables, partitions>>

\* The deferred function commits or rolls back; an error of the commit is logged.
EndCopy ==
  /\ pc = "copy" /\ todo = {}
  /\ Return(err, IF err = "nil" /\ txn = "ok" THEN copied ELSE {})
  /\ UNCHANGED <<tables, partitions, force>>

Send ==
  \/ \E k \in Keys : EnsureStart(k)
  \/ EnsureEnd
  \/ EnsureFails
  \/ BeginCopy
  \/ \E t \in Metrics : \/ PrepareFails(t)
                        \/ CopySucceeds(t)
                        \/ CopyFindsNoPartition(t)
                        \/ CopyLosesConnection(t)
  \/ EndCopy

Next ==
  \/ ReceiveBatch
  \/ ResendOldest
  \/ Send
  \/ World

\* The persister goes on with what it has begun, and its channel is drained now and
\* then, when it looks at the retry queue.
Fairness == WF_vars(ResendOldest) /\ WF_vars(Send)

Spec == Init /\ [][Next]_vars /\ Fairness

-----------------------------------------------------------------------------
Errors == {"nil", "connection", "does not exist", "no partition", "aborted", "lost"}

DatabaseTypeOK ==
  /\ now \in Periods /\ up \in BOOLEAN /\ cleanups \subseteq Cleanups
  /\ tables \subseteq Metrics
  /\ partitions \subseteq Rows

CacheTypeOK ==
  /\ DOMAIN partitionMap \subseteq Keys
  /\ \A k \in DOMAIN partitionMap :
       partitionMap[k].from \in Periods /\ partitionMap[k].to \in 1 .. MaxPeriod + 1
  /\ force \in BOOLEAN

CallTypeOK ==
  /\ direct \in BOOLEAN /\ msg \subseteq Rows
  /\ todo \subseteq Keys \cup Metrics /\ cur \in Keys \cup {NoKey}
  /\ txn \in {"none", "ok", "aborted", "lost"} /\ err \in Errors
  /\ copied \subseteq msg
  /\ result \in [err : Errors, txn : {"none", "ok", "aborted", "lost"},
                 stored : {"all", "some", "none"}]

\* The variables have their types; the backlog is no longer than the queue may be,
\* although a batch that was sent directly is queued without a look at its length.
TypeOK ==
  /\ DatabaseTypeOK /\ CacheTypeOK /\ CallTypeOK
  /\ backlog \in Seq(SUBSET Rows) /\ Len(backlog) <= MaxBacklog
  /\ pc \in {"idle", "retry", "ensure", "copy"}

\* SendToPostgres puts a batch wholly or not at all, and when it returns an error
\* not at all: what is resent later is never there twice.  This is what the
\* persister's module takes for granted of this store.
AllOrNothing ==
  /\ result.stored # "some"
  /\ result.err # "nil" => result.stored = "none"

\* When SendToPostgres returns no error the batch is stored, or its connection was
\* lost, or the next send is told to create its partitions even when it knows them.
LossIsNoticed ==
  result.err = "nil" =>
    result.stored = "all" \/ result.txn = "lost" \/ force

\* From some time on the metrics database stays up, and nobody drops partitions.
PartitionsStay == <>[]up /\ <>[][partitions \subseteq partitions']_partitions

\* A server error that is seen while the rows of a table are still being sent: the
\* check for missing partitions is not made.
EarlyError == err = "no partition" /\ ~force

\* From some time on no batch is dropped from a full queue.
NoneDropped ==
  <>[][Len(backlog) = MaxBacklog => backlog' = Tail(backlog)]_backlog

\* The queue is emptied again and again, when it is only the partitions that are
\* dropped, never a table, when the server's errors are not always early, and when
\* the queue does not overflow for ever: a failed batch does not hold up those that
\* wait behind it for ever.
BacklogDrains ==
  PartitionsStay /\ []("tables" \notin cleanups) /\ <>[](~EarlyError) /\ NoneDropped
    => []<>(backlog = <<>>)

\* "in case data was cleaned by user externally" (pgwatch2.go:2041) the caches are
\* re-initialised: storing goes on, and the queue is emptied again and again.
BacklogSurvivesCleanup ==
  PartitionsStay /\ <>[](~EarlyError) /\ NoneDropped => []<>(backlog = <<>>)

\* "Trying to re-create all needed partitions on next run" (pgwatch2.go:1272): once
\* nobody drops partitions any more, no batch fails for want of one, until the next
\* period has its own.
PartitionsRecreated ==
  PartitionsStay /\ <>[](~EarlyError) /\ NoneDropped => <>[](txn # "aborted")
=============================================================================
