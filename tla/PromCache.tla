------------------------------ MODULE PromCache ------------------------------
(***************************************************************************)
(* The asynchronous mode of the Prometheus exporter, for one database:     *)
(* gatherers send rows to the persister, which keeps the last of each      *)
(* metric in promAsyncMetricCache, where scrapes find them.  The main loop *)
(* makes and purges the database's part of the cache, gatherers and        *)
(* scrapes purge single metrics.                                           *)
(***************************************************************************)
EXTENDS Naturals, Sequences

CONSTANTS
  PromMetrics,     \* names of metrics
  StorageName,     \* under which name the rows of each are stored
  Stamped,         \* metrics whose rows have an epoch_ns
  Configurations,  \* sets of metrics that the database may be configured for
  Removable,       \* metrics whose definition may be removed, or their interval set
                   \* to zero, while the database is configured for them
  HardDropLimit,   \* PROM_SCRAPING_STALENESS_HARD_DROP_LIMIT, in ticks
  ChannelCapacity  \* bound on the messages that wait for the persister

ASSUME PromAssumption ==
  /\ "none" \notin PromMetrics
  /\ StorageName \in [PromMetrics -> PromMetrics]
  /\ Stamped \subseteq PromMetrics
  /\ Configurations \subseteq SUBSET PromMetrics
  /\ Removable \subseteq PromMetrics
  /\ HardDropLimit \in Nat
  /\ ChannelCapacity \in Nat \ {0}

VARIABLES
  configured,      \* the database's metrics in the stored configuration; none if it
                   \* is removed, ignored or not wanted in its present role
  monitored_db_cache, \* the same as the main loop read it last
  undefined,       \* metrics of it that are seen to have no definition or the
                   \* interval zero, while gatherers are started
  round,           \* where the main loop is
  mainLoopInitialized,
  gatherer,        \* where each gatherer is
  stop,            \* gatherers that were sent a STOP
  persist_ch,      \* messages on their way to the persister
  initialized,     \* promAsyncMetricCache has a map for the database
  cache,           \* what is in it: under each name no rows or rows of some age
  scrape,          \* metrics that the scrape that is going on has still to do
  held,            \* what it found for one of them
  served           \* what the last step sent to Prometheus

mainLoopVars == <<monitored_db_cache, undefined, round, mainLoopInitialized>>
gathererVars == <<gatherer, stop>>
asyncCacheVars == <<initialized, cache>>
scrapeVars == <<scrape, held>>
promVars ==
  <<configured, mainLoopVars, gathererVars, persist_ch, asyncCacheVars, scrapeVars, served>>

TooOld == HardDropLimit + 1
Messages == [metric : PromMetrics, name : PromMetrics, age : 0 .. TooOld]
NoRows == [metric |-> "none", name |-> "none", age |-> 0]
Older(msg) ==
  [msg EXCEPT !.age = IF msg.metric \in Stamped /\ @ < TooOld THEN @ + 1 ELSE @]
Nothing == [asked |-> "none", msg |-> NoRows]

PromInit ==
  /\ configured \in Configurations
  /\ monitored_db_cache = {} /\ undefined = {}
  /\ round = "sleep" /\ mainLoopInitialized = FALSE
  /\ gatherer = [m \in PromMetrics |-> "none"] /\ stop = {}
  /\ persist_ch = <<>>
  /\ initialized = FALSE /\ cache = [n \in PromMetrics |-> NoRows]
  /\ scrape = {} /\ held = Nothing
  /\ served = Nothing

-----------------------------------------------------------------------------
(* The cache.                                                              *)

PromAsyncCacheInitIfRequired ==
  /\ initialized' = TRUE
  /\ cache' = IF initialized THEN cache ELSE [n \in PromMetrics |-> NoRows]

\* A mutant of PromAsyncCacheAddMetricData: the database's map is made if there is none.
PromAsyncCacheAddAndInit(msg) ==
  /\ cache' = [cache EXCEPT ![msg.name] = msg]
  /\ initialized' = TRUE

PromAsyncCacheAddMetricData(msg) ==
  /\ cache' = IF initialized THEN [cache EXCEPT ![msg.name] = msg] ELSE cache
  /\ UNCHANGED initialized

PurgeMetric(name) ==
  /\ cache' = [cache EXCEPT ![name] = NoRows]
  /\ UNCHANGED initialized

\* A mutant of PurgeDatabase: rows stay where they are.
PurgeDatabaseKeepsRows == initialized' = FALSE /\ UNCHANGED cache

PurgeDatabase ==
  /\ cache' = [n \in PromMetrics |-> NoRows]
  /\ initialized' = FALSE

-----------------------------------------------------------------------------
(* The main loop: it reads the configuration, starts gatherers, stops      *)
(* others, and purges the cache of a database that is gone.                *)

ReadConfig ==
  /\ round = "sleep"
  /\ monitored_db_cache' = configured
  /\ undefined' \in SUBSET (Removable \cap configured)
  /\ round' = "start"
  /\ UNCHANGED <<configured, mainLoopInitialized, gathererVars, persist_ch, asyncCacheVars,
                 scrapeVars>>

\* A gatherer that was stopped may still be there; then it is not followed any more
\* here, and what it sent is what is in persist_ch.
StartGatherer(m) ==
  /\ round = "start"
  /\ m \in monitored_db_cache \ undefined
  /\ gatherer[m] = "none" \/ m \in stop
  /\ gatherer' = [gatherer EXCEPT ![m] = "fetch"]
  /\ stop' = stop \ {m}
  /\ PromAsyncCacheInitIfRequired
  /\ UNCHANGED <<configured, mainLoopVars, persist_ch, scrapeVars>>

Running == {m \in PromMetrics \ stop : gatherer[m] # "none"}

\* Its rows stay in the cache, and the pass that purges does not see its channel any more.
StopUndefined(m) ==
  /\ round = "start"
  /\ m \in Running \cap undefined
  /\ stop' = stop \cup {m}
  /\ UNCHANGED <<configured, mainLoopVars, gatherer, persist_ch, asyncCacheVars, scrapeVars>>

AllStarted ==
  /\ round = "start"
  /\ monitored_db_cache \ undefined = monitored_db_cache \cap Running
  /\ undefined' = {}
  /\ mainLoopInitialized' = TRUE
  /\ round' = "stop"
  /\ UNCHANGED <<configured, monitored_db_cache, gathererVars, persist_ch, asyncCacheVars,
                 scrapeVars>>

StopGatherer(m) ==
  /\ round = "stop"
  /\ m \in Running \ monitored_db_cache
  /\ stop' = stop \cup {m}
  /\ PurgeMetric(m)
  /\ UNCHANGED <<configured, mainLoopVars, gatherer, persist_ch, scrapeVars>>

\* A mutant of CloseResourcesForRemovedMonitoredDBs: whether it is removed is not
\* looked at.
CloseResources ==
  /\ round = "stop"
  /\ Running \subseteq monitored_db_cache
  /\ PurgeDatabase
  /\ round' = "sleep"
  /\ UNCHANGED <<configured, monitored_db_cache, undefined, mainLoopInitialized, gathererVars,
                 persist_ch, scrapeVars>>

CloseResourcesForRemovedMonitoredDBs ==
  /\ round = "stop"
  /\ Running \subseteq monitored_db_cache
  /\ IF monitored_db_cache = {} THEN PurgeDatabase ELSE UNCHANGED asyncCacheVars
  /\ round' = "sleep"
  /\ UNCHANGED <<configured, monitored_db_cache, undefined, mainLoopInitialized, gathererVars,
                 persist_ch, scrapeVars>>

MainLoop ==
  \/ ReadConfig \/ AllStarted \/ CloseResourcesForRemovedMonitoredDBs
  \/ \E m \in PromMetrics : StartGatherer(m) \/ StopUndefined(m) \/ StopGatherer(m)

-----------------------------------------------------------------------------
(* Gatherers and the persister.                                            *)

\* Without rows what the cache has is purged, under the metric's own name; with rows
\* they are sent under the name for storage.  A fetch may also fail.
Fetch(m) ==
  /\ gatherer[m] = "fetch"
  /\ gatherer' = [gatherer EXCEPT ![m] = "wait"]
  /\ UNCHANGED <<configured, mainLoopVars, stop, scrapeVars>>

FetchRows(m) ==
  /\ Fetch(m)
  /\ Len(persist_ch) < ChannelCapacity
  /\ persist_ch' = Append(persist_ch, [metric |-> m, name |-> StorageName[m], age |-> 0])
  /\ UNCHANGED asyncCacheVars

FetchNoRows(m) ==
  /\ Fetch(m)
  /\ PurgeMetric(m)
  /\ UNCHANGED persist_ch

FetchFails(m) ==
  /\ Fetch(m)
  /\ UNCHANGED <<persist_ch, asyncCacheVars>>

\* The next interval, or the STOP.
Wake(m) ==
  /\ gatherer[m] = "wait"
  /\ \/ m \in stop /\ gatherer' = [gatherer EXCEPT ![m] = "none"] /\ stop' = stop \ {m}
     \/ gatherer' = [gatherer EXCEPT ![m] = "fetch"] /\ UNCHANGED stop
  /\ UNCHANGED <<configured, mainLoopVars, persist_ch, asyncCacheVars, scrapeVars>>

Persist ==
  /\ persist_ch # <<>>
  /\ persist_ch' = Tail(persist_ch)
  /\ PromAsyncCacheAddMetricData(Head(persist_ch))
  /\ UNCHANGED <<configured, mainLoopVars, gathererVars, scrapeVars>>

-----------------------------------------------------------------------------
(* A scrape (Collect), of a snapshot of monitored_db_cache.                *)

BeginScrape ==
  /\ mainLoopInitialized
  /\ scrape = {} /\ held = Nothing
  /\ scrape' = monitored_db_cache
  /\ UNCHANGED <<configured, mainLoopVars, gathererVars, persist_ch, asyncCacheVars, held>>

\* A metric is looked for under its own name, then under the one for storage.
FoundRows(m) == IF cache[m] # NoRows THEN cache[m] ELSE cache[StorageName[m]]

LookUp(m) ==
  /\ m \in scrape
  /\ held = Nothing
  /\ scrape' = scrape \ {m}
  /\ held' = IF FoundRows(m) = NoRows THEN Nothing ELSE [asked |-> m, msg |-> FoundRows(m)]
  /\ UNCHANGED <<configured, mainLoopVars, gathererVars, persist_ch, asyncCacheVars>>

\* A mutant of Serve: rows of any age are served.
ServeAnyAge ==
  /\ held # Nothing
  /\ held' = Nothing
  /\ UNCHANGED <<configured, mainLoopVars, gathererVars, persist_ch, asyncCacheVars, scrape>>

\* What was found is looked at without a lock.
Serve ==
  /\ held # Nothing
  /\ held.msg.age < TooOld
  /\ held' = Nothing
  /\ UNCHANGED <<configured, mainLoopVars, gathererVars, persist_ch, asyncCacheVars, scrape>>

DropStale ==
  /\ held # Nothing
  /\ held.msg.age = TooOld
  /\ held' = Nothing
  /\ PurgeMetric(held.msg.name)
  /\ UNCHANGED <<configured, mainLoopVars, gathererVars, persist_ch, scrape>>

-----------------------------------------------------------------------------
(* The configuration, the database and the clock.                          *)

Reconfigure ==
  /\ configured' \in Configurations \ {configured}
  /\ UNCHANGED <<mainLoopVars, gathererVars, persist_ch, asyncCacheVars, scrapeVars>>

TimePasses ==
  /\ persist_ch' = [i \in DOMAIN persist_ch |-> Older(persist_ch[i])]
  /\ cache' = [n \in PromMetrics |-> Older(cache[n])]
  /\ held' = [held EXCEPT !.msg = Older(@)]
  /\ UNCHANGED <<configured, mainLoopVars, gathererVars, initialized, scrape>>

GatherAndPersist(m) == FetchRows(m) \/ FetchNoRows(m) \/ FetchFails(m) \/ Wake(m)

PromStep ==
  \/ MainLoop \/ Persist \/ BeginScrape \/ DropStale
  \/ \E m \in PromMetrics : GatherAndPersist(m) \/ LookUp(m)
  \/ Reconfigure \/ TimePasses

PromNext ==
  \/ PromStep /\ served' = Nothing
  \/ Serve /\ served' = held

PromSpec == PromInit /\ [][PromNext]_promVars

\* The main loop goes round, gatherers fetch, what was sent is stored, and time passes.
PromFairness ==
  /\ WF_promVars(MainLoop /\ served' = Nothing)
  /\ WF_promVars(Persist /\ served' = Nothing)
  /\ WF_promVars(TimePasses /\ served' = Nothing)
  /\ \A m \in PromMetrics : WF_promVars(GatherAndPersist(m) /\ served' = Nothing)

-----------------------------------------------------------------------------
(* Properties.                                                             *)

\* Types; under each name are rows that are stored under it, and there are none
\* without a map for the database.
PromTypeOK ==
  /\ configured \in Configurations
  /\ monitored_db_cache \cup undefined \subseteq PromMetrics
  /\ round \in {"sleep", "start", "stop"}
  /\ mainLoopInitialized \in BOOLEAN
  /\ gatherer \in [PromMetrics -> {"none", "fetch", "wait"}]
  /\ stop \subseteq PromMetrics
  /\ persist_ch \in Seq(Messages) /\ Len(persist_ch) <= ChannelCapacity
  /\ initialized \in BOOLEAN
  /\ cache \in [PromMetrics -> Messages \cup {NoRows}]
  /\ \A n \in PromMetrics : cache[n] # NoRows => cache[n].name = n /\ initialized
  /\ scrape \subseteq PromMetrics
  /\ {held, served} \subseteq [asked : PromMetrics, msg : Messages] \cup {Nothing}

\* After a round that did not find the database nothing is kept of it, whatever
\* gatherers that have not noticed their STOP still send or have sent before: a
\* message that arrives late does not bring it back.
RemovedLeavesNothing ==
  round = "sleep" /\ monitored_db_cache = {} => ~initialized

\* The rows of a gatherer that is to run have a place in the cache: no purge of the
\* whole database hits one whose gatherers go on.
RowsHaveAPlace == Running # {} => initialized

\* Rows are served only for as long as there are any.  A message that overtakes the
\* purge, or a purge that misses rows that are stored under another name, does not
\* make the last rows appear for ever, if they have a time.
StaleDisappears ==
  \A n \in Stamped :
    (\A m \in PromMetrics : StorageName[m] = n => m \in Stamped)
      /\ <>[][~ \E m \in PromMetrics : StorageName[m] = n /\ FetchRows(m)]_promVars
    => <>[](served.msg.name # n)
=============================================================================
