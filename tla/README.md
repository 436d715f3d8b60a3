# A verification development for the pgwatch2 gatherer

This directory holds TLA+ modules that model the pgwatch2 gatherer daemon (`src/pgwatch2/*.go`), TLC
configurations that check them on small instances, and TLAPS proofs of what matters most for instances of any size.
`PROJECT.json` lists the components, the runs, the mutants that show each property can fail, the map from each
definition to the source lines it stands for, the findings, the hazards and the theorems. Line numbers below are
those of `src/pgwatch2/pgwatch2.go` unless another file is named.

1. [The system](#1-the-system) · 2. [Plan](#2-plan) · 3. [Modules and code](#3-modules-and-code) ·
4. [Runs](#4-runs) · 5. [Fairness](#5-fairness) · 6. [Proofs](#6-proofs) · 7. [Findings](#7-findings) ·
8. [Not modelled](#8-not-modelled) · 9. [Running it](#9-running-it)

## 1. The system

pgwatch2 polls PostgreSQL servers for metrics and writes them into a metrics store. One Go process runs:

| component | state | operations | correct when |
|---|---|---|---|
| **main loop** (`main`, 5593-6006) | monitored databases, metric definitions, `control_channels`, `host_metric_interval_map`, role last seen per host | every round: re-read configuration, start or re-configure gatherers, shutdown pass, close pools | no gatherer is orphaned or doubled, intervals reach them, what is removed is stopped, the loop comes round |
| **gatherers** (`MetricGathererLoop`, 3400-3594) | interval, ticker | fetch, store, wait for a tick or a control message, pause in disabled times | every START and STOP is obeyed once; a metric pauses when the settings say |
| **fetch path** (`FetchMetrics`, 3057-3240; the instance-level cache, 3267-3308) | rows of instance-level metrics with a time stamp, marks of unreachable databases | look in the cache, ask with less and then with more rights, store in the cache | cached rows are not much older than they may be, marks do not outlive their reason |
| **version cache** (`DBGetPGVersion`, 2179-2328) | version, recovery state, execution environment per database, for two minutes | read, fetch, store | an entry was true at some time after its fetch began, nothing else survives a fetch, and it becomes what the server is |
| **batcher** (`MetricsBatcher`, 1925-1960) | batch, datapoint counter | collect, flush on a tick or when the limit is exceeded | nothing lost, repeated, overtaken, or held back for ever; batches limited |
| **persister** (`MetricsPersister`, 1993-2105; `ProcessRetryQueue`, 1874-1923) | a retry queue, an error flag and a last try per store | deliver, queue, retry oldest first | as long as the process lives every datum has a known place, order is kept, queues are bounded, backlogs drain, stores do not hinder one another |
| **Postgres store** (`SendToPostgres` and `Ensure*`, 1054-1297, 1605-1762; retention, 1299-1445; `src/pgwatch2/sql/metric_store`) | caches of known partitions, the partitions | COPY, create partitions, drop old ones, maintain the listing of names | no write goes to a partition that was dropped, no write fails silently |
| **Prometheus export** (3254-3265, 5106-5123, prom.go) | in asynchronous mode the last rows of each metric per database | store, scrape, purge | a removed database leaves nothing, a running one has a place, rows are not served for ever |
| **dormancy and pools** (516-598, 5066-5159) | pools, undersized and ignored databases | limit, restore and close pools | a dormant database can come back |
| **change detection** (2420-2921) | hashes per object | take a first picture, compare, report | each change is reported once |
| **discovery** (patroni.go; 795-934, 4502-4648) | members found last | poll the DCS, list a server's databases | a failing DCS does not remove the cluster, names that are joined from parts are apart where the parts are, what is monitored becomes what the DCS says |
| **log parsing** (`logparseLoop`, logparse.go:109-348) | file, offset, event counts | follow, rotate, count, report | no line is passed over or counted twice, and the reader catches up |
| **disabled times** (3656-3831) | none | decide whether a fetch is skipped | exactly when the settings say |

How they interact: the main loop and a gatherer share one control channel of capacity 1 per gatherer; gatherers write
to a channel (called `buffered_persist_ch` in `main`, `storage_ch` where it is a parameter), the batcher moves batches
from there to `persist_ch`, the persister is that one's only consumer. Everything else is shared maps, most of them
under a lock of their own.

What makes it hard: the main loop *blocks* on a control channel while its gatherer fetches; gatherers look at their
channel only between fetches, so that several generations of one gatherer overlap; roles are read at three places of a
round and refreshed by others in between; a store may fail before, during or after a batch is written; retries are
taken up only when the channel is empty; limits are tested for equality; error paths end the process, or overwrite one
error by another. The file `PROJECT.json` lists the hazards, each at its line and with the properties that watch it.

## 2. Plan

The way of a metric through the process comes first, since it is what the program is for, then who decides what is
gathered, then what a gatherer does between two ticks, then the services around the process.

| order | module | composes | proofs |
|---|---|---|---|
| 1 | `StorageParameters`, `Delivery`, `MetricsPersister` | the second refines the first | `MetricsPersister_proofs` |
| 2 | `MetricsBatcher`, `MetricsStorage` | batcher and persister; refines `MetricsPersister` | `MetricsStorage_proofs` |
| 3 | `MonitoringLoop` | main loop, gatherers, version cache (reduced) | `MonitoringLoop_proofs` |
| 4 | `PostgresStore` | `SendToPostgres`, partition caches, retention, cleanups | `PostgresStore_proofs` |
| 5 | `VersionCache` | concurrent callers of `DBGetPGVersion`, scrapes, the server | `Gatherers_proofs` |
| 6 | `MetricFetch` | concurrent calls of `FetchMetrics`, the instance-level cache | `Gatherers_proofs` |
| 7 | `ChangeDetection` | one gatherer's passes, failures, restarts, the database | `ChangeDetection_proofs` |
| 8 | `LogParser` | the reader, the server that writes, rotates and removes | `LogParser_proofs` |
| 9 | `DisabledTimes` | the decision against a definition by moments of the week | `Gatherers_proofs` |
| 10 | `Discovery` | rounds of the main loop, the DCS, the clusters, the servers | `Services_proofs` |
| 11 | `PromCache` | main loop (reduced), gatherers, persister, scrapes | `Services_proofs` |

All of it is done. What could be added is named in section 8: the maintenance of the table that lists names, the size
limit below which a database is dormant, and the choice of a metric's SQL by version.

## 3. Modules and code

### 3.1 `MetricsPersister`

One store or two (`Stores`), each in a condition `up`, `down` or `flaky` that changes at any time. A datum is a number,
a batch a set of consecutive ones. `written`, `dropped`, `rejected` and `lost` say what became of each datum at each
store; they are history, and no guard reads them.

| action | code |
|---|---|
| `Receive` | `case msg_arr := <-storage_ch` |
| `QueueBehindBacklog` | the store has a backlog: drop the oldest if the queue is full, push (2012-2028) |
| `SendDirectly` | `SendTo*`, then queue, give up (Influx) or settle (2028-2086) |
| `BeginRetryPass`, `SkipStore` | `default:` and the test of `in_error` and `last_try` (2088-2101) |
| `RetrySucceeds`, `RetryStops` (`RetryFails` or `RetryDies`) | `ProcessRetryQueue` (1874-1923): reconnect, resend the oldest, remove on success or refusal, stop on another error, `log.Fatal` |
| `Produce`, `HealthChange`, `TenSecondsPass` | the gatherers, the server, the clock |

`Delivery` is the abstract specification: for each store a first-in first-out queue of batches, of which at most `Memory`
wait when another arrives. A batch is accepted for all stores at once; at a store the oldest one leaves, as far as the
store took it (`Leave`), or makes way unsent, only if there is no room (`Drop`); a store that takes batches in part may have
some of it before it leaves (`TakePart`), and a process that serves such a store may end, with all that is on its way (`End`).
`ImplementsDelivery` maps the retry queue, with the batch in flight behind it,
to that queue; the conditions on `in_error`, the ten seconds, the pass over the queues and its limit are not seen there.

What a send may come to is `SendResults`, an error and the data that reached the store: for Influx any error with
anything stored, "parse" and "partial" being refusals (936-1052); for Postgres a COPY that is rolled back, with an
error that `stmt.Close()` may overwrite with nil (1175-1297); for Graphite whatever the *last* datum of the batch
says (2047-2052); for the JSON file a prefix (1962-1991). A Postgres connection that is lost during the COPY or at the
deferred commit is such a case (`flaky`): the batch is then lost, though nothing is wrong with the data. When a retry
ends the process (`RetryDies`) its memory is gone, and the model empties channel and retry queues; `NothingVanishes` and
`AllAccountedFor` are about a process that lives, and what its end costs is the finding `outage`. A batch taken off the queue after a resend counts as settled
by that result. The counters of the statistics server are left out, and so is the Prometheus branch; the
reset of the partition caches after a direct send is in `PostgresStore`.

### 3.2 `MetricsBatcher` and `MetricsStorage`

`MetricsBatcher` has the goroutine at one of three places: in the select, in the loop over a received message, or
blocked on sending the batch (`Flush`), which may happen in the middle of that loop. What batcher and persister have in
common, the datastore, the channel between them and the bounds, are the constants of `StorageParameters`. `Exceeds` is the test at
1949, of the counter with the message in it. `Tick` is a
`time.Ticker`, whose channel holds one tick. `MetricsStorage` puts batcher and persister together over `storage_ch` and
states that the whole implements `MetricsPersister`, with what was flushed as what was produced. If the persister ends the
process the batcher's state is gone with it (`BatcherGoesOn`).

### 3.3 `MonitoringLoop`

A gatherer is an instance `<<h, m, s>>`; the slot `s` distinguishes generations of the gatherer of metric `m` at database
`h` and names its control channel. `control_channels[<<h, m>>]` is the slot the main loop has a channel to.

| action | code |
|---|---|
| `ReadConfig`, `FailToReadConfig` | 5601-5718: definitions when due, the configuration; on failure sleep again |
| `ConsiderHost` | one database of the loop (5720-5839): pool, version, role change, the metric configuration |
| `StartGatherer`, `StopMetric`, `IgnoreMetric`, `UpdateInterval` | the four branches for one metric (5845-5898); `StopMetric` has the send on a nil channel |
| `EndFirstRound`, `BeginShutdownPass`, `CheckGatherer`, `EndShutdownPass` | 5931-6005, `CloseResourcesForRemovedMonitoredDBs` |
| `Fetch`, `ReceiveTick`, `ReceiveControl` | `MetricGathererLoop` (3449-3591) |
| `DBGetPGVersion` | the cache reduced to role and freshness; one call is one step |
| `Change`, `VersionExpires` | users, fail-overs, the network; two minutes |

The settings it stands for: no `--ping`, no test data, no ad-hoc mode, `--min-db-size-mb` below 8, a datastore
that is fetched for in the background, `dbtype` postgres. Iteration over Go maps is in any order. `mainLoopCount`
matters only up to 2 and is capped there. `failedInitialConnectHosts` is always empty (it is never written), so 5744-5790
never runs; `recoveryIgnoredDBs` is never read. The log parsing gatherer is started and stopped like any other. A
read of `monitored_db_cache` is one of `monitored_dbs`, which is copied to it right after it is read.

### 3.4 `PostgresStore`

Time is counted in periods, the week (for realtime metrics the day) of one partition. A row is a key and a period; a key
is what the caches are indexed by, a metric or a metric and a database. The module has one persister with its retry
queue, reduced to what calls `SendToPostgres`, and the metrics database with its tables and partitions.

| action | code |
|---|---|
| `ReceiveBatch`, `ResendOldest` | the two callers (2006-2037, 1874-1886), a batch that joins a full queue dropping the oldest (`Queued`, 2013-2028) |
| `EnsureStart`, `EnsureEnd`, `EnsureFails` | the calls of the database's ensure function for the first and last row of a key, with the cache (1630-1762); which are made depends on `PGSchemaType` (`AsksForStart`, `AsksForEnd`) |
| `BeginCopy` | the reset of `forceRecreatePGMetricPartitions`, `Begin` (1176-1193) |
| `PrepareFails`, `CopySucceeds`, `CopyFindsNoPartition`, `CopyLosesConnection` | one turn of the loop over the tables (1208-1281), in any order |
| `EndCopy` | the deferred commit or rollback (1194-1206), whose error is only logged |
| `AfterSend` (part of the returning step) | queue, cache reset on "does not exist", next resend (2037-2045, 1911-1920) |
| `DropOldPartition` | the retention job (1299-1359) |
| `DropAllMetricTables`, `RemoveSingleDbname`, `EnsureMetricDummy` | functions of `sql/metric_store`, 1605-1628 |
| `PeriodPasses`, `OutageOrReturn` | the clock; the connection, and with it an open transaction |

`CopyFindsNoPartition` has three outcomes, since the driver (`lib/pq`) reports a server error where it sees it: the last
`Exec` of a COPY closes the statement and has the error, after which `Close()` has none to report and overwrites `err`
with nil; or the error came before that `Exec`, and both report it; or an `Exec` of a row saw it, and only `Close()`
reports it. Rows that cannot be made JSON are skipped and counted by the code and are not rows here. The outcome
`SendResults` of the persister's module for Postgres is what this module's `AllOrNothing` says.

### 3.5 `VersionCache`

One server and any number of calls of `DBGetPGVersion`. A call looks at the entry (`CallHits`, `CallMisses`), asks the
first query (`MainQuery`, `MainQueryFails`) and the others in their order (`OptionalQuery`), and stores a new entry
(`Store`). A step is one query or one look under the map's lock: the lock per database is copied when it is taken out of
its map (2196-2197), so that it keeps nobody out and calls overlap. What the server is changes with its `generation`; an
entry holds, per field, the generation it tells of, 0 for a field that is not known. Two fields are carried over from
the entry that was read first: the execution environment, and the size if its query fails (2278-2297). A failure of the
first query is hidden by that entry (`HidesError`, 2254-2262) unless the caller wants no cached answer or asks a pooler.
Which of the optional queries are made depends on the version and on flags and is the constant `Optional`. The history
variables `since`, `entrySince` and `wasUp` remember where the server was when a call began.

### 3.6 `MetricFetch`

One metric, with the attributes of its definition that decide anything, at the databases of one server, with a gatherer
each or several of one database (generations, or a scrape). A call of `FetchMetrics` is at one of eight places:

| action | code |
|---|---|
| `BeginFetch`, `BeginFetchFails` | version, definition, interval, and what needs no query (3068-3115) |
| `LookAtStamp`, `CopyRows` | `GetFromInstanceCacheIfNotOlderThanSeconds` (3267-3293), whose two locks are taken one after the other |
| `DoNotQuery`, `QuerySucceeds`, `QueryFails`, `GetElsewhere` | the SQL with or without rights (`NextSql`, 3122-3135), the roles (3142-3145), the query |
| `Fail` | what follows an error (3156-3191): recovery, `instance_up`, the mark, the one retry with more rights |
| `Succeed`, `RemovedMeanwhile` | the mark cleared, a database that was removed (3192-3205) |
| `PutRows`, `PutStamp`, `PutNothing` | `PutToInstanceCache` (3295-3308) |

Ages are counted in ticks; a call waits at most `MaxWait` between its question and the use of the answer, since
statements have a timeout.

### 3.7 `ChangeDetection`

A pass looks at one kind of object after the other (`Look`, `LookFails`), compares hashes with `host_state`, and ends with
a summary (`EndPass`). What is detected is computed in the code's order: new and altered objects are put into the
remembered map (`Merged`), then the numbers decide whether dropped ones are looked for at all (`LooksForDrops`), then they
are forgotten (`After`). Procedures, tables and indexes are treated alike by the code and by `Detected`; settings are
never dropped and one of them is passed over, privileges are never altered and never all gone. `RestartGatherer` loses
`host_state`, which is a local of the gatherer: nothing reads an earlier picture back from the store. The dummy table that is made for
a first picture (`EnsureMetricDummy`, an action of `PostgresStore`) and the texts of the events are left out.

### 3.8 `LogParser`

Files are numbered as the server opens them, a line has two pieces so that it may be seen half written.

| action | code (logparse.go) |
|---|---|
| `Stop`, `Configure` | the outer loop: control messages, configuration, the newest file until one was opened (129-223) |
| `Open`, `OpenFails` | open and seek (225-254); where reading begins is `Beginning` |
| `ReadLine`, `ReachEOF` | one turn of the inner loop (263-344) |
| `SwitchFile`, `KeepFile` | the look for a newer file after the sleep (280-297), and the send if the interval is over |
| `ReadFails`, `Refresh` | an error of the read (264-273), the refresh of the configuration (256-262) |
| `Write`, `Rotate`, `Remove`, `IntervalPasses` | the server, the administrator, the clock |

The expression that picks a line apart is reduced to whether the line counts, which it does unless it is the rest of a
line whose beginning was read and thrown away.

### 3.9 `DisabledTimes`

A week of ticks. `IsMetricCurrentlyDisabledForHost` is translated with its two helpers; days are numbers, a range of
times two ticks. `Moments` is the reference: the set of ticks of the week that a setting names. `PausesAsTold` compares
each pass of the gatherer with it.

### 3.10 `Discovery`

One entry of the configuration, of any of the kinds that are resolved, with its DCS (`FindMembers`, `FindNoDcs`), its
members (`ProcessMember`) and the databases of a server (`ResolveDatabasesFromConfigEntry`). The three `*GetClusterMembers`
are the sets of answers of a DCS that can be reached: complete for Consul, with members left out for Zookeeper, with
scopes left out for a namespace in etcd. The members found last replace the error of a DCS that cannot be reached. A
Zookeeper that goes away between listing the members and reading them is such an incomplete answer, in the extreme an
empty one, which replaces the memory as in the code; it does not count as an outage for `OutageChangesNothing`.

The code makes names by joining strings with "_": the entry's with the cluster's or the member's (which in a namespace has
the cluster's before it, `addScopeToName`), and that with the database's. In the module a string is the sequence of its
parts between underscores and joining is concatenation, so that two names are equal exactly if the strings are, and
members of two clusters may have the same name. Names can then be equal although their parts differ: with members `1`
and `1_2` of one cluster and databases `2_d` and `d`, as in the run, or with clusters `a` and `a_b` and databases `b_c` and
`c`. Nothing in the code excludes it. `NamesAreUnique` is therefore about hosts whose names and clusters have equally many
underscores (`AlikeNamed`), whose names can be told apart if the code adds all that is needed; without that condition TLC
finds the collision.

### 3.11 `PromCache`

One database in asynchronous mode. Main loop (`ReadConfig`, `StartGatherer`, `StopUndefined`, `AllStarted`, `StopGatherer`,
`CloseResourcesForRemovedMonitoredDBs`), gatherers (`FetchRows`, `FetchNoRows`, `FetchFails`, `Wake`), persister (`Persist`)
and a scrape (`BeginScrape`, `LookUp`, `Serve`, `DropStale`) share `promAsyncMetricCache`. A message has the name it is
stored under, which need not be the name a purge goes by. Ages stop at the limit after which rows are not served; rows
without a time never grow older. The two places where the main loop stops a gatherer differ: the one for a metric that has
lost its definition or whose interval is zero now (`StopUndefined`, 5880-5884) does not purge the metric, the shutdown pass
(`StopGatherer`, 5982-5990) does.

### 3.12 `MC*`

`MCPostgresStore` gives two metrics of one database. `MCMetricsStorage` gives messages 0, 1 or 2 datapoints;
`MCMonitoringLoop` defines the configurations of one database: a slow and a fast interval, interval zero, an alternative
for standbys, master-only, recommendations.

`MCGatherers` and `MCServices` put modules side by side that share no state, in five and six parts: a variable `part` says
which one a behaviour is about, the others stay in one of their initial states (`Rest`). An invariant of one module then
is checked in the behaviours of that module, and holds in the others as it does initially; a liveness property is
`part = "..." /\ <that module's fairness> => ...`, so that TLC checks it in behaviours that are fair to that part.
`MCServices` has the persister four times, with two Influx stores, with a Graphite store, with the JSON file, and with a
Postgres store whose producers never cease: `Forget` strikes from the history the data that have met their fate and
renumbers the others, so that `Produce` goes on for ever in finitely many states. The persister's guards read neither
numbers nor history, and the step only renames what its invariants are about; it is in no other part.

## 4. Runs

Every property has a mutant in `PROJECT.json`: a definition changed the way a bug would change it, under which TLC finds
the property violated.

| run | bounds | shows |
|---|---|---|
| `storage` | 5 messages in sends of 1-3, batch limit 2, both channels of 1, a Postgres store that is up, down or loses connections, queue of 3, retry limit 2, fair | types, `QueueBounded`, `ExactlyOnePlace` (no datum is sent again once it has a fate), `InOrder`, `BatchesLimited`, `AllAccountedFor`; `ImplementsPersister`, `ImplementsDelivery`; `GatheredIsSettled` |
| `loop_safety` | one database, 3 metrics, 3 changes, 2 generations per gatherer | types, `NoOrphans`, `IntervalPropagates`, `SleepsTidy` |
| `loop_converges` | one database, one metric, 2 changes, fair | `Converges`: when changes cease, exactly the gatherers run that the configuration asks for |
| `pg_store` | schema `metric-dbname-time`, two metrics (one realtime), 3 periods, batches of a row, of two tables or of two periods, a queue of 2 that drops its oldest, each cleanup once, fair | `AllOrNothing`, `LossIsNoticed` (a batch given up without an error was lost with the connection, or the next send is told to create its partitions), `BacklogDrains` as long as tables are not dropped and the queue does not overflow for ever |
| `gatherers`, version part | two calls, one of them a scrape that wants no cache, three optional queries, one change of the server, any outages | `NotOlderThanItsCall`, `UpWasReached`; `VersionConverges` |
| ... fetch part | two gatherers of one database, six kinds of metric, cache age 1, waits of 1 | `CachedNotTooOld`; `FetchConverges` |
| ... change part | three kinds, two objects, two changes or restarts | `RemembersLastLook`, `ChangedIffReported`; `ChangesConverge` |
| ... log part | two files of one line in two pieces, one failing read | `LinesCounted`; `LogConverges` |
| ... disabled part | days of 5 ticks, 4 settings of the metric, 5 of the database, changing at any time | `PausesAsTold` |
| `services`, discovery part | two clusters of two members with the same two names, two databases, two changes or incomplete answers | `NamesAreUnique`, `OutageChangesNothing`; `ResolvedConverges` |
| ... Prometheus part | two metrics stored under one name, one of which may lose its definition, rows of age 0 and too old, a channel of 1 | `RemovedLeavesNothing`, `RowsHaveAPlace`; `StaleRowsDisappear` |
| ... Influx part | two stores of any health, the second always up, 4 data, queue of 1 | `StoresIndependent` |
| ... Postgres part | data without end, of which 4 are on their way at a time, queue of 2, retry limit 1, any health | `BacklogDrains`: a backlog does not stand still while batches keep coming, if the channel is found empty again and again |
| ... Graphite and JSON parts | 4 data, queue of 2, any health | `NothingVanishes`, even where a batch is put in part, as long as no retry has ended the process |
| `loop_stuck`, `loop_standby`, `pg_cleanup`, `pg_recreate`, `nights`, `outage` | | the findings of section 7 |

Why the bounds are enough. In `storage` 5 messages, in batches of one or two, fill a queue of 3 and overflow it, with a
retry limit below the length of the queue, so that every relation of interest occurs: empty, partly full, full and
overflowing. A channel of 1 or 2 makes producers block. In `storage` a send of three messages exceeds the batch limit in its
middle, so that a batch is flushed with a rest left over. In `loop_safety` two generations are what it takes for a gatherer that was told to stop to
overlap with its successor; a third would need the loop to stop that one too, while the first still fetches. Three
changes are enough for a removal, a return and a fail-over, or a re-definition, in any order. One database is enough
for the channel discipline, as no step touches two; the theorems of section 6 hold for any number of databases,
metrics, generations and changes. In `pg_store` three
periods let a partition grow old enough to be dropped while its key is cached, the arriving batches (`Shapes`) have one
row, two tables or two periods, and in a queue of 2 a batch waits behind one that fails, and the oldest is dropped when a
third arrives. `BacklogDrains` leaves out a queue that overflows for ever (`NoneDropped`): TLC finds without that premise
that batches which drop the oldest before each resend can keep the queue from ever being empty, each using up the order
to re-create partitions for itself (the finding `pg_recreate`).

In the parts of `gatherers` and `services`: two calls are what it takes for an answer of the past to arrive after a newer
one, and the theorem `EntryNotOlderThanItsCall` has any number. Two gatherers can put rows and stamp in any order between
two looks of the third call that each of them makes next. Two objects of one kind are enough for one to appear as another
goes, which is where numbers deceive; two files for a rotation while a line is half written; a day of 5 ticks for a range
with a moment inside, before and after, and for two ranges that overlap; two clusters of two members for two masters
within one cluster and one in each, and for members that only their cluster tells apart. A metric stored under its own name and another under that same name are the two
cases of a purge by name. The theorems of section 6 cover any values where there are some.

`loop_safety` does not look for deadlock since the loop may block for ever (see
`loop_stuck`), nor do the runs where `log.Fatal` or the same block ends everything, nor the
runs of `PostgresStore`, `gatherers` and `services`, where the world may have nothing left to do, a gatherer may have been
stopped, or a retry may have ended the process.

## 5. Fairness

* The persister and the batcher are goroutines that never wait for each other in a circle, and a Go process schedules
  every runnable goroutine: weak fairness of each.
* Time passes: weak fairness of `TenSecondsPass`, `Tick`, `VersionExpires`.
* A Go `select` picks *at random* among the cases that are ready. A tick that is ready again and again does not keep
  the other case from being taken: strong fairness of `ReceiveMsg` and `ReceiveControl`.
* A fetch ends: statements have a timeout, and the channel it writes to is drained. Weak fairness of `Fetch` with
  `ReceiveTick`.
* The configuration can be read again and again (`SF` of `ReadConfig(TRUE)`), otherwise nothing could converge.
* In `PostgresStore` the persister goes on with what it has begun (weak fairness of `Send`) and its channel is empty now
  and then, when it looks at the retry queue (weak fairness of `ResendOldest`, the premise of the last point below).
  Nothing is assumed of the database's users; the liveness properties are conditional on partitions that stay, and on
  server errors that are not for ever seen only in the middle of a COPY: then `forceRecreatePGMetricPartitions` is
  never set, and they are false.
* Calls of `DBGetPGVersion` are made again and again and end, and entries grow older than two minutes (weak fairness in
  `VersionFairness`). The server's changes are not fair: `EntryConverges` is about a server that stays reachable.
* A gatherer goes on with `FetchMetrics` (weak), and what is tried over and over works some time: an error of the version
  query, of a query on a database that accepts connections, or the moment of a removal, does not meet every call (strong
  fairness of `BeginFetch`, `QuerySucceeds`, `Succeed`).
* Change detection: passes go on (weak), and no look fails for ever (strong fairness of `Look`).
* The log reader goes on (weak), also when it is sent through its outer loop again and again by refreshes, which happen
  once in minutes while a line takes no time (strong fairness of `Read`); intervals pass. Errors of the read are bounded.
* The main loop goes round (`Resolve` in `Discovery`, `MainLoop` in `PromCache`), messages for the Prometheus cache are taken
  from the channel, gatherers fetch, time passes: weak fairness. No fairness of scrapes is assumed.
* Nothing is assumed of `HealthChange` and `Change`: the liveness properties are conditional on a store that stays up, or
  on databases that can be reached.
* Nothing in the code lets the persister find its channel empty when gatherers are fast enough to keep it filled, and only
  then does it look at the retry queues (2088). `BacklogDrains` of `MetricsPersister` has this as a premise,
  `[]<>(pc = "retry")`; without it the property is false, as new batches push the backlog through the full queue unsent.
  In `storage` production ends, so that `GatheredIsSettled` needs no such premise; what it shows is that nothing stays on
  its way for want of more messages. In the Postgres part of `services` production does not end.

## 6. Proofs

All theorems hold for every value of the constants that satisfies the modules' assumptions (`PersisterAssumption`,
`BatcherAssumption`, `LoopAssumption`, `StoreAssumption`, `VersionAssumption`, `ChangeAssumption`,
`LogAssumption`, `FetchAssumption`, `DisabledAssumption`, `DiscoveryAssumption`, `PromAssumption`), which TLC evaluates in
the runs. These only say that capacities and limits are numbers, positive where the code needs it, that configurations
name hosts and metrics, and that the sets fit together; there is one store unless the datastore is Influx, as in the
code, the objects of a database are finitely many, no metric is called "none", and a database's disabled times are a
sequence of entries with well-formed ranges. The bounds (`MaxItems`, `MaxInstances`, `MaxChanges`, `MaxGeneration`, `MaxAlterations`, `MaxFiles`,
...) are constants as well, so the theorems hold for any amount of data and any number of changes.

**`MetricsPersister_proofs`.** `ControlInv` is types, the queue bound, "in error only with a backlog", a part on the
control flow (a retry pass that has begun a store's queue counts from 0 and has something to resend) and
the emptiness of Influx queues; it is inductive, and needs the control flow part since `RetrySucceeds` takes the head of
a queue. `NothingVanishes` follows with `StoreStep`, which says what any step of the persister may do to one store:
nothing, queue the batch in flight, drop the oldest, or let one batch go with a fate for each of its data. So each
action is examined once (`PersisterStoreStep`) and the later invariants only look at `StoreStep`. `OrderInv` adds the
order in the channel, without which a received batch could be older than a backlog; it gives `DeliveredInOrder` and
`EachDatumInOnePlace` for stores that are atomic (Influx and Postgres). `StoresAreIndependent` has an invariant of its
own: a reliable store has no queue. A retry may end the process, which empties its queues: what the theorems say of
`NothingVanishes` is said of a process that lives, and the order and the single place of a datum are stated for
stores whose retry does not end it (`AtomicLives`).

`PersisterImplementsDelivery` is the refinement, for every datastore. `PendingIs` and `NextStorePending` say what the
map makes of the loop over the stores, `SettleIsLeave` and `KeepIsTakePart` do the two ways a send may end, and each
action of the persister is one of these, a `Drop`, an `Accept`, the `End` of the process (`RetryDiesEnds`) or no step. It
needs `ControlInv` (there is room when a batch arrives, a retry has something to send) and the order in the channel,
which `Accept` asks for. TLC checks it with Postgres in `storage`.

**`MetricsStorage_proofs`.** `PipelineInv` says that batch, rest of the received message and `buffered_storage_ch` are
one run of numbers `flushed + 1 .. gathered`, cut where the sends were; the cuts are a function whose existence is the
invariant, which `ConsecutiveAppend` and `ConsecutiveTail` extend and shorten. A flush then is a `Produce` of the
persister's specification, and `PipelineImplementsPersister` is the refinement. Through it the persister's theorems hold
of the pipeline: `GatheredIsAccountedFor` (while the process lives) and `GatheredStaysInOrder` reach from the gatherers to
the stores, `GatheredInOnePlace` and `QueuesStayBounded` restate the persister's, and `StorageTypesOK` takes the
persister's half of the types from there. `PipelineImplementsDelivery` joins the two refinements.

`BatchesAreLimited` is about sums: `LimitInv` says that `datapointCounter` is the number of points of the batch's messages,
and that a batch that is over the limit is only so by its last message. The sum is a fold over a set; that adding one
element adds its points (`PointsIn`) is proved from the fold's recursive function, by the smallest counterexample in the
place of an induction.

**`MonitoringLoop_proofs`.** `TypeInv` adds to the types that the loop's work list holds what each phase needs (during
the shutdown pass, pairs that have a channel). `InCharge` is `NoOrphans` with the statement on intervals, per
gatherer: in charge and running with at most a START waiting, told to stop, or gone with an empty channel. It is
inductive because a new gatherer takes a slot whose gatherer is gone, hence one with an empty channel, and because a
channel is forgotten in the step that sends STOP. `SleepsAreTidy` needs what is true in the middle of a
shutdown pass: what should be closed and still has a channel is yet to be visited.

**`PostgresStore_proofs`.** `PersisterInv` says that what is queued and sent is never an empty batch, so that "nothing
stored" and "all stored" differ, and that a resend has a backlog; `TransactionInv` says that a good transaction has
copied the rows of exactly the tables that are done, and that an aborted one whose error was overwritten has left
`force` set. Every return of `SendToPostgres` is handled by one lemma (`ReturnKeeps`), which gives
`StoredWhollyOrNot` and `MissingPartitionIsNoticed` for any schema type, keys, retention and arriving batches.
`QueuedFacts` is about a batch that joins others: the queue stays within its bound, and what is in it was there before
or is that batch, whether or not the oldest had to make way.

The types need more than that (`TypeInv`): that a batch has a first and a last period for each of its keys (`Smallest` and
`Largest`, from the well-foundedness of `<`), and, in `ProgressInv`, that the key whose end is being ensured is cached.
`StoreTypesOK` contains the bound of the retry queue, which holds although a failed direct send queues its batch without a
look at the length, because a direct send is only made when the queue is empty.

**`ChangeDetection_proofs`.** `CInv` is types, `RemembersLastLook`, `EventsTellAll` and that a privilege is there or not.
The heart is not in the invariant but in lemmas about `Merged`: the remembered objects then contain the present ones, so
that equal numbers mean equal sets (a theorem on the cardinality of subsets of finite sets), nothing needs to be looked
for, and comparing numbers before merging would be wrong.

**`LogParser_proofs`.** `LInv` has `OldestFirst` (files are chosen upwards, so that the file before is never the one that is
open) and `Ahead`: the lines that the open file still has to offer have been counted less often than it was opened, and
a line the reader stands in the middle of is known as torn. `OldestFirst` gives `NothingIsSkipped` as well: the code that is to
skip what was read before an error cannot be reached. The arithmetic of pieces and lines is in `Halves`.

**`Gatherers_proofs`.** It begins with the version cache, the instance-level cache and disabled times, part by part.

* `VInv` adds to `NotOlderThanItsCall` what calls hold on to: a call past its first query has a version (`HasVersion`), what
  it has read is not older than its beginning (`ReadsSince`), and a scrape that has an answer was answered (`NoticesUp`).
  The overlap of calls is harmless to the invariant because it speaks of each call's own beginning; a stronger one, that
  entries are never replaced by older ones, is false in the code.
* `FInv` is types, what a call at each place has asked (`Progress`), `CachedNotTooOld` and `RowsAndStamp`: the rows in the
  cache are older than their stamp by at most two waits. Rows and stamp are two maps under two locks, written one after
  the other, so their ages differ: by the wait of the call that set the stamp, and by that of a call that wrote its rows
  over newer ones. The third wait in the property is that of the call that copies the rows after looking at the stamp.
* `FetchesPauseAsTold` compares the tests of weekday, hour and minute with a set of moments of the week, for days of any
  length and settings of any number. `DayAndTime` takes a moment apart, `InTimeIff` and `InMomentsIff` do it for one range and
  one entry, `EntryDisablesIff` for the loop over the entries, in which the first entry for the metric changes what later
  ones mean. Entries that say nothing and ranges over midnight are excepted, as the code does something else with them.

The last section is about `MCGatherers`, the module TLC runs: its specification implies those of the five parts
(`GatherersImplementParts`), so that all theorems of the parts hold of it (`GatherersTypesOK`, `GatherersAreSafe`).

**`Services_proofs`.** Discovery, the Prometheus cache and their composition with the persister's part.

* `DInv` is types with `MemoryInv`: what is being resolved, and between rounds what is monitored, comes from members that the
  memory holds, under names made of the member's own. If the entry names its database it is exactly what the memory stands
  for, also in the middle of a round that failed, from which `OutagesChangeNothing` follows: the memory is not touched by
  such a round. `NamesAreTheirOwn` reduces a clash of names to two masters in the memory. Names are joined sequences of
  parts, which the lemmas take apart from the end: equal joins whose first halves are equally long have equal halves
  (`JoinedAlike`), so that hosts that are alike (`AlikeNamed`) and share a name share the database and the member
  (`NamesApart`). For hosts that are not alike the code's names do coincide, and nothing is claimed.
* `PInv` is the type invariant with `RemovedLeavesNothing` and `RowsHaveAPlace`; it is inductive since a message is put into
  the cache only if the database has a map, and only the main loop makes and purges maps. The types are split into parts
  (`PromParts`, `Placed`) that one action touches at a time.
* `MCServices` instantiates `MetricsPersister_proofs` for Influx, Graphite and the JSON file, so that the persister's theorems
  come with each; a behaviour that looks at one of these is one of that persister (`InfluxPart`, `GraphitePart`, `JsonPart`).
  This gives `InfluxStoresAreIndependent` and `NothingVanishesInPart`.

**Only model-checked** are the liveness properties (`BacklogDrains` of both modules, `GatheredIsSettled`, `Converges`,
`VersionConverges`, `FetchConverges`, `ChangesConverge`, `LogConverges`, `ResolvedConverges`, `StaleRowsDisappear`),
which are beyond the prover. Every invariant, action property and refinement that a passing run checks is a theorem as
well. The other way round, the type invariant of `PostgresStore`, `ErrorImpliesBacklog`, `NoInfluxBacklog`,
`EventsTellAll` and `SkippingIsDead` are proved and not run.

## 7. Findings

| run | code | what |
|---|---|---|
| `loop_stuck` | 5883 | A metric with interval zero, without a gatherer and without a definition: STOP is sent on a nil channel, the main loop blocks for ever. (With a definition it takes the branch at 5868, where nothing happens.) |
| `loop_standby` | 5726 | The standby configuration is used in the round that sees the role change and replaced in the next. |
| `pg_cleanup` | 2038 | The partition caches are re-initialised only after a direct send. A batch that waits in the retry queue when its table is dropped fails at every resend, and all later batches wait behind it. |
| `pg_recreate` | 1176 | After dropped partitions the flag that is to re-create them is consumed by the next batch, whatever it holds, while the failed batch was reported as stored: with two metrics in turn one is lost, until the next period has a partition of its own. |
| `nights` | 3785 | A disabled range over midnight, such as "22:00-05:00", the example of `metrics/wal/metric_attrs.yaml:7`, pauses nothing after midnight: the end is moved to the next day, the time that is checked is not. |
| `outage` | 1891 | While a Graphite store is away the first retry ends the process by `log.Fatal`, and with it everything that waits in queues and channels, where `docs/sizing_recommendations.rst:9` has metrics cached in memory up to a limit. |

Further observations, which no run asks for since no text of the repository says otherwise, or since they need no
state to be seen:

* The sentence that `outage` quotes does not hold of the other stores either. A batch that cannot be written to Influx is
  given up, neither queued nor counted as dropped (2077), and the Influx branches of the retry are dead code: theorem
  `InfluxNeverQueues`. For a Postgres connection that is lost during the COPY, or at the deferred commit,
  `SendToPostgres` may return nil, and the batch is lost (1266-1280, 1194-1206; `CopyLosesConnection`, `EndCopy`).
* Any retry to the JSON file ends the daemon by `log.Fatal` (`RetryDies`), and so does the schema type "custom" before the
  first COPY (1174).
* A backlog is looked at only when the channel is found empty (2088). If gatherers keep it filled nothing is resent, and
  the backlog goes through the full queue unsent; and a queue that overflows before each resend may never get empty.
* Names that discovery joins with "_" can be equal for different databases (section 3.10).
* `failedInitialConnectHosts` is never written, so that gatherers start for databases never reached (5742);
  `recoveryIgnoredDBs` is never read, its check looks into another map (5150).
* The lock of `DBGetPGVersion` is copied out of its map and excludes nobody (2196), against the comment at 2209.
* The error of a COPY is overwritten by that of `Close()` (1277). An error that is seen while rows are still being sent is
  not looked at for a missing partition (1269).
* The first look of change detection makes the map of a kind even if it fails; the next look then reports every object as
  created (2426). The last REVOKE of all is taken for a failed query (2719).
* What is written to a log file between its end and the look for newer files, which comes after a sleep, is not read
  (logparse.go:280). If the file that is followed is removed the reader waits at its end for ever (logparse.go:59; the
  constant `RemovesCurrent`). After a failing read a file is counted again from its beginning (logparse.go:233-247).
* An entry of the database's disabled times for another metric that says neither days nor times pauses this metric if an
  entry before it is for this metric (3809). The time zone of a range makes no difference (3779).
* A scrape that found rows too old purges what is in the cache by then (prom.go:213); rows without a time are served for
  ever if a purge misses them, which goes by the metric's name and not by the one for storage (3505).
* In Prometheus mode the goroutine that keeps the listing of names up to date waits on a nil channel (5702). The
  maintainer of the listing does not return while another instance holds the lock (1546).
* The key of the instance-level cache is the concatenation of two names without a separator (3270).

## 8. Not modelled

* **Listing of names** (`AddDBUniqueMetricToListingTable`, `UniqueDbnamesListingMaintainer`): a table for dashboards, written
  once per gatherer and pruned under an advisory lock; nothing in the gatherer reads it.
* **Connection pools and dormancy**: the pools are the driver's. The size below which a database is passed over
  (`--min-db-size-mb`) is a setting that `MonitoringLoop` has off; where it is on, its effect is that of a configuration
  without the database, which `Change` covers.
* **Fetch path**: the files of metric definitions and the choice of the SQL by version, rows from the operating system and
  from Pgpool, tags added to rows. These are functions of data without state.
* **Main loop**: flags, YAML, start-up, `--ping` and ad-hoc mode: I/O before the loop, or a loop of one round.
* **Prometheus export**: the conversion of rows to metrics; in synchronous mode a scrape is a call of `FetchMetrics` and
  `DBGetPGVersion`, in their modules.
* **Postgres store**: deletion of rows where tables are not partitioned by time, rows that cannot be made JSON.
* **Change detection**: the dummy table made in the store for a first picture that reports nothing, and the wording of the
  events.
* The statistics server (it only reads), the Web UI (`src/webpy`, a form over the configuration database whose effect is
  `Change`), metric SQL, dashboards and packaging.

Within the modelled components, logging, counters and formatting are left out.

## 9. Running it

    tlc -workers 2 -config MetricsPersister_outage.cfg MetricsPersister.tla
    tlc -workers 2 -config MetricsStorage.cfg MCMetricsStorage.tla
    tlc -workers 2 -config MonitoringLoop_safety.cfg MCMonitoringLoop.tla
    tlc -workers 2 -config MCGatherers.cfg MCGatherers.tla
    tlc -workers 2 -config MCServices.cfg MCServices.tla
    tlapm MetricsPersister_proofs.tla
    tlapm Gatherers_proofs.tla
    tlapm Services_proofs.tla

`loop_safety` (1.1 million states), `pg_store` (1.3 million), `gatherers` (0.4 million, with five liveness properties) and
`services` (0.4 million) take a minute or three each; every other run takes seconds.
