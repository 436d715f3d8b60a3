--------------------------- MODULE MonitoringLoop ---------------------------
(***************************************************************************)
(* The main loop (pgwatch2.go) and the gatherers it starts, re-configures  *)
(* and stops.  Every round reads the configuration, starts or updates the  *)
(* gatherers of each database and metric, and, from the second round on,   *)
(* stops those that are no longer wanted.  The loop and a gatherer share   *)
(* only a control channel, which holds one message.                        *)
(*                                                                         *)
(* A gatherer is an instance <<h, m, s>>: slot s tells apart the gatherers *)
(* of one database and metric, and stands for their control channels too.  *)
(***************************************************************************)
EXTENDS Naturals, Sequences, FiniteSets

CONSTANTS
  Hosts,             \* names of databases
  MetricNames,
  RecoMetrics,       \* the metrics with prefix RECO_PREFIX
  RECO_METRIC_NAME,  \* the metric that gathers all of these
  MonitoredDatabases, \* the configuration entries a database may have
  Configs,           \* the configurations that may be stored
  DefinedMetrics,    \* the sets of metrics that may be defined
  MaxInstances,      \* bound: gatherers of one database and metric
  MaxChanges         \* bound: changes of configuration, definitions, role and network

ASSUME LoopAssumption ==
  /\ RecoMetrics \subseteq MetricNames
  /\ RecoMetrics # {} => RECO_METRIC_NAME \in MetricNames
  /\ \A db \in MonitoredDatabases :
       /\ db.OnlyIfMaster \in BOOLEAN
       /\ DOMAIN db.Metrics \subseteq MetricNames
       /\ DOMAIN db.MetricsStandby \subseteq MetricNames
       /\ \A m \in DOMAIN db.Metrics : db.Metrics[m] \in Nat
       /\ \A m \in DOMAIN db.MetricsStandby : db.MetricsStandby[m] \in Nat
  /\ \A conf \in Configs :
       /\ DOMAIN conf \subseteq Hosts
       /\ \A h \in DOMAIN conf : conf[h] \in MonitoredDatabases
  /\ \A defs \in DefinedMetrics : defs \subseteq MetricNames
  /\ MaxInstances \in Nat \ {0}
  /\ MaxChanges \in Nat

Slots     == 1 .. MaxInstances
Pairs     == Hosts \X MetricNames
Instances == Hosts \X MetricNames \X Slots

Roles == {"primary", "standby"}

VARIABLES
  \* the world
  stored_config, stored_defs, role, reachable, changes,
  \* db_pg_version_map: the role last seen, and whether it was checked within 2 minutes
  known, fresh,
  \* the main loop
  pc, mainLoopCount,
  monitored_dbs,                  \* also monitored_db_cache
  prevLoopMonitoredDBs,           \* their names
  metric_def_map,                 \* its keys
  hostsToShutDownDueToRoleChange,
  hostLastKnownStatusInRecovery,
  host_metric_interval_map,
  control_channels,               \* the slot of each pair's channel, 0 if it has none
  monitored_db_conn_cache,        \* databases with a connection pool
  todo,                           \* what the current loop has still to visit
  host, metric_config, todoMetrics,
  \* the gatherers
  status, interval, control_ch

world     == <<stored_config, stored_defs, role, reachable, changes>>
versions  == <<known, fresh>>
settings  == <<monitored_dbs, prevLoopMonitoredDBs, metric_def_map, mainLoopCount>>
mainloop  == <<pc, todo, host, metric_config, todoMetrics>>
shared    == <<host_metric_interval_map, control_channels>>
hosts     == <<hostsToShutDownDueToRoleChange, hostLastKnownStatusInRecovery,
               monitored_db_conn_cache>>
gatherers == <<status, interval, control_ch>>
vars == <<world, versions, settings, mainloop, shared, hosts, gatherers>>

NoMetrics == [m \in {} |-> 0]

Init ==
  /\ stored_config \in Configs
  /\ stored_defs \in DefinedMetrics
  /\ role \in [Hosts -> Roles]
  /\ reachable \in [Hosts -> BOOLEAN]
  /\ changes = 0
  /\ known = [h \in Hosts |-> "none"]
  /\ fresh = [h \in Hosts |-> FALSE]
  /\ pc = "sleep"
  /\ mainLoopCount = 0
  /\ monitored_dbs = [h \in {} |-> NoMetrics]
  /\ prevLoopMonitoredDBs = {}
  /\ metric_def_map = {}
  /\ hostsToShutDownDueToRoleChange = {}
  /\ hostLastKnownStatusInRecovery = [h \in Hosts |-> FALSE]
  /\ host_metric_interval_map = [p \in Pairs |-> 0]
  /\ control_channels = [p \in Pairs |-> 0]
  /\ monitored_db_conn_cache = {}
  /\ todo = {}
  /\ host = CHOOSE h \in Hosts : TRUE
  /\ metric_config = NoMetrics
  /\ todoMetrics = {}
  /\ status = [i \in Instances |-> "none"]
  /\ interval = [i \in Instances |-> 0]
  /\ control_ch = [i \in Instances |-> <<>>]

-----------------------------------------------------------------------------
(* The world: users change the configuration and the metric definitions,   *)
(* servers fail over and become unreachable, time passes.                  *)

Change ==
  /\ changes < MaxChanges
  /\ changes' = changes + 1
  /\ \/ /\ stored_config' \in Configs \ {stored_config}
        /\ UNCHANGED <<stored_defs, role, reachable>>
     \/ /\ stored_defs' \in DefinedMetrics \ {stored_defs}
        /\ UNCHANGED <<stored_config, role, reachable>>
     \/ \E h \in Hosts :
          /\ role' = [role EXCEPT ![h] = IF @ = "primary" THEN "standby" ELSE "primary"]
          /\ UNCHANGED <<stored_config, stored_defs, reachable>>
     \/ \E h \in Hosts :
          /\ reachable' = [reachable EXCEPT ![h] = ~@]
          /\ UNCHANGED <<stored_config, stored_defs, role>>
  /\ UNCHANGED <<versions, settings, mainloop, shared, hosts, gatherers>>

\* Two minutes pass since the version of h was determined.
VersionExpires(h) ==
  /\ fresh[h]
  /\ fresh' = [fresh EXCEPT ![h] = FALSE]
  /\ UNCHANGED <<world, known, settings, mainloop, shared, hosts, gatherers>>

\* DBGetPGVersion: the cached entry if it is fresh; else ask the server, and if
\* that fails the old entry, or an empty one, without an error.
Asks(h, connected) == ~fresh[h] /\ reachable[h] /\ connected

\* What it returns.
Version(h, connected) == IF Asks(h, connected) THEN role[h] ELSE known[h]

DBGetPGVersion(h, connected) ==
  /\ known' = [known EXCEPT ![h] = Version(h, connected)]
  /\ fresh' = [fresh EXCEPT ![h] = @ \/ Asks(h, connected)]

-----------------------------------------------------------------------------
(* Control channels.                                                       *)

START(n) == [Action |-> "START", interval |-> n]
STOP     == [Action |-> "STOP",  interval |-> 0]

Channel(h, m) == <<h, m, control_channels[<<h, m>>]>>

HasChannel(h, m) == control_channels[<<h, m>>] # 0

\* A mutant of Send: do not wait for room in the channel.
SendIfRoom(h, m, msg) ==
  control_ch' = [control_ch EXCEPT ![Channel(h, m)] = IF @ = <<>> THEN <<msg>> ELSE @]

\* A mutant of Send: a channel that holds more than one message.
SendUnbounded(h, m, msg) ==
  control_ch' = [control_ch EXCEPT ![Channel(h, m)] = Append(@, msg)]

\* control_channels[db_metric] <- msg, which blocks while the channel is full.
Send(h, m, msg) ==
  /\ control_ch[Channel(h, m)] = <<>>
  /\ control_ch' = [control_ch EXCEPT ![Channel(h, m)] = <<msg>>]

\* A mutant of ShutDown: forget the channel without a word.
ForgetChannel(h, m) ==
  /\ control_channels' = [control_channels EXCEPT ![<<h, m>>] = 0]
  /\ UNCHANGED control_ch

\* Send STOP and forget the channel.
ShutDown(h, m) ==
  /\ Send(h, m, STOP)
  /\ control_channels' = [control_channels EXCEPT ![<<h, m>>] = 0]

-----------------------------------------------------------------------------
(* The main loop: reading the configuration.                               *)

\* A new round; refresh says whether the metric definitions are due and can be
\* read, which they must be in the first round.
ReadConfig(refresh) ==
  /\ pc = "sleep"
  /\ mainLoopCount = 0 => refresh
  /\ metric_def_map' = IF refresh THEN stored_defs ELSE metric_def_map
  /\ monitored_dbs' = stored_config
  /\ hostsToShutDownDueToRoleChange' = {}
  /\ todo' = DOMAIN stored_config
  /\ pc' = "monitor"
  /\ UNCHANGED <<world, versions, prevLoopMonitoredDBs, mainLoopCount, host, metric_config,
                 todoMetrics, shared, hostLastKnownStatusInRecovery,
                 monitored_db_conn_cache, gatherers>>

\* The configuration cannot be read (which ends the program in the first round):
\* sleep again, though the metric definitions may have been refreshed.
FailToReadConfig ==
  /\ pc = "sleep"
  /\ mainLoopCount > 0
  /\ metric_def_map' = stored_defs
  /\ hostsToShutDownDueToRoleChange' = {}
  /\ UNCHANGED <<world, versions, monitored_dbs, prevLoopMonitoredDBs, mainLoopCount,
                 mainloop, shared, hostLastKnownStatusInRecovery,
                 monitored_db_conn_cache, gatherers>>

-----------------------------------------------------------------------------
(* The loop over the databases, and that over the metrics of each.         *)

HasStandbyConfig(db) == DOMAIN db.MetricsStandby # {}

\* One database: determine its role and the metrics to gather, or leave it to
\* the shutdown pass.
ConsiderHost(h) ==
  /\ pc = "monitor"
  /\ todoMetrics = {}
  /\ h \in todo
  /\ todo' = todo \ {h}
  /\ monitored_db_conn_cache' = monitored_db_conn_cache \cup {h}
  /\ DBGetPGVersion(h, TRUE)
  /\ LET db == monitored_dbs[h]
         isInRecovery == Version(h, TRUE) = "standby"
         changed == hostLastKnownStatusInRecovery[h] # isInRecovery
         useStandby == changed /\ isInRecovery /\ HasStandbyConfig(db)
     IN IF isInRecovery /\ db.OnlyIfMaster
        THEN /\ hostsToShutDownDueToRoleChange' = hostsToShutDownDueToRoleChange \cup {h}
             /\ UNCHANGED <<host, metric_config, todoMetrics, hostLastKnownStatusInRecovery>>
        ELSE /\ metric_config' = IF useStandby THEN db.MetricsStandby ELSE db.Metrics
             /\ hostLastKnownStatusInRecovery' =
                  [hostLastKnownStatusInRecovery EXCEPT ![h] = IF changed THEN useStandby ELSE @]
             /\ todoMetrics' = DOMAIN metric_config'
             /\ host' = h
             /\ UNCHANGED hostsToShutDownDueToRoleChange
  /\ UNCHANGED <<world, settings, pc, shared, gatherers>>

\* All metrics that recommend something are gathered by one gatherer.
Alias(m) == IF m \in RecoMetrics THEN RECO_METRIC_NAME ELSE m

\* A Go map returns zero for a key it does not have.
Interval(config, m) == IF m \in DOMAIN config THEN config[m] ELSE 0

IsDefined(m) == m = RECO_METRIC_NAME \/ m \in metric_def_map

\* One iteration of the loop over metric_config, short of what it does to the
\* gatherer.
NextMetric(m) ==
  /\ pc = "monitor"
  /\ m \in todoMetrics
  /\ todoMetrics' = todoMetrics \ {m}
  /\ UNCHANGED <<world, versions, settings, todo, host, metric_config, hosts>>

\* Start a gatherer, with a channel of its own, unless the interval is zero.
StartGatherer(m) ==
  LET metric == Alias(m)
      n == Interval(metric_config, metric)
  IN /\ NextMetric(m)
     /\ IsDefined(metric)
     /\ ~HasChannel(host, metric)
     /\ IF n > 0
        THEN \E s \in Slots :
               /\ status[<<host, metric, s>>] = "none"
               /\ control_channels' = [control_channels EXCEPT ![<<host, metric>>] = s]
               /\ host_metric_interval_map' =
                    [host_metric_interval_map EXCEPT ![<<host, metric>>] = n]
               /\ status' = [status EXCEPT ![<<host, metric, s>>] = "fetch"]
               /\ interval' = [interval EXCEPT ![<<host, metric, s>>] = n]
               /\ UNCHANGED control_ch
        ELSE UNCHANGED <<shared, gatherers>>
     /\ UNCHANGED pc

\* The definition was removed or the interval set to zero: stop the gatherer.  Without
\* one, when there is no definition and the interval is zero, the message is sent on a
\* nil channel, which blocks for ever.
StopMetric(m) ==
  LET metric == Alias(m) IN
  /\ NextMetric(m)
  /\ ~(IsDefined(metric) /\ ~HasChannel(host, metric))
  /\ \/ ~IsDefined(metric) /\ HasChannel(host, metric)
     \/ Interval(metric_config, metric) = 0
  /\ \/ /\ HasChannel(host, metric)
        /\ ShutDown(host, metric)
        /\ UNCHANGED <<pc, host_metric_interval_map, status, interval>>
     \/ /\ ~HasChannel(host, metric)
        /\ pc' = "stuck"
        /\ UNCHANGED <<shared, gatherers>>

\* The metric is configured but not defined: complain.
IgnoreMetric(m) ==
  LET metric == Alias(m) IN
  /\ NextMetric(m)
  /\ ~IsDefined(metric)
  /\ ~HasChannel(host, metric)
  /\ Interval(metric_config, metric) > 0
  /\ UNCHANGED <<pc, shared, gatherers>>

\* The gatherer runs: tell it if its interval has changed.
UpdateInterval(m) ==
  LET metric == Alias(m)
      n == Interval(metric_config, metric)
  IN /\ NextMetric(m)
     /\ IsDefined(metric)
     /\ HasChannel(host, metric)
     /\ n > 0
     /\ IF host_metric_interval_map[<<host, metric>>] # n
        THEN /\ Send(host, metric, START(n))
             /\ host_metric_interval_map' =
                  [host_metric_interval_map EXCEPT ![<<host, metric>>] = n]
             /\ UNCHANGED <<control_channels, status, interval>>
        ELSE UNCHANGED <<shared, gatherers>>
     /\ UNCHANGED pc

-----------------------------------------------------------------------------
(* The shutdown pass and the end of a round.                               *)

\* The round ends; mainLoopCount matters only as far as the second round.
Sleep ==
  /\ pc' = "sleep"
  /\ mainLoopCount' = IF mainLoopCount < 2 THEN mainLoopCount + 1 ELSE 2
  /\ prevLoopMonitoredDBs' = DOMAIN monitored_dbs
  /\ UNCHANGED <<world, versions, monitored_dbs, metric_def_map, host, metric_config,
                 todoMetrics, hostsToShutDownDueToRoleChange,
                 hostLastKnownStatusInRecovery, shared, gatherers>>

AllHostsConsidered == pc = "monitor" /\ todo = {} /\ todoMetrics = {}

\* The first round has no shutdown pass.
EndFirstRound ==
  /\ AllHostsConsidered
  /\ mainLoopCount = 0
  /\ Sleep
  /\ UNCHANGED <<todo, monitored_db_conn_cache>>

BeginShutdownPass ==
  /\ AllHostsConsidered
  /\ mainLoopCount > 0
  /\ pc' = "shutdown"
  /\ todo' = {p \in Pairs : control_channels[p] # 0}
  /\ UNCHANGED <<world, versions, settings, host, metric_config, todoMetrics, shared,
                 hosts, gatherers>>

\* A mutant of ToBeClosed: a database that is to be ignored is none that is removed.
ToBeClosedIfRemoved(h) == h \notin DOMAIN monitored_dbs

ToBeClosed(h) == h \in hostsToShutDownDueToRoleChange \/ h \notin DOMAIN monitored_dbs

\* The metrics that should be gathered in the role last seen.
CurrentMetricConfig(h) ==
  LET db == monitored_dbs[h] IN
  IF known[h] = "standby" /\ HasStandbyConfig(db) THEN db.MetricsStandby ELSE db.Metrics

\* One gatherer: stop it if its database is gone or to be ignored, or its metric
\* is not configured any more; nothing of the latter is done before the version
\* is known.
CheckGatherer(h, m) ==
  /\ pc = "shutdown"
  /\ <<h, m>> \in todo
  /\ todo' = todo \ {<<h, m>>}
  /\ IF \/ ToBeClosed(h)
        \/ known[h] # "none" /\ Interval(CurrentMetricConfig(h), m) = 0
     THEN ShutDown(h, m)
     ELSE UNCHANGED <<control_channels, control_ch>>
  /\ UNCHANGED <<world, versions, settings, pc, host, metric_config, todoMetrics,
                 host_metric_interval_map, hosts, status, interval>>

\* A mutant of EndShutdownPass: the pools of removed databases are kept.
EndShutdownPassKeepingPools ==
  /\ pc = "shutdown"
  /\ todo = {}
  /\ monitored_db_conn_cache' = monitored_db_conn_cache \ hostsToShutDownDueToRoleChange
  /\ Sleep
  /\ UNCHANGED todo

\* CloseResourcesForRemovedMonitoredDBs, then sleep.
EndShutdownPass ==
  /\ pc = "shutdown"
  /\ todo = {}
  /\ monitored_db_conn_cache' =
       monitored_db_conn_cache \ ((prevLoopMonitoredDBs \ DOMAIN monitored_dbs)
                                  \cup hostsToShutDownDueToRoleChange)
  /\ Sleep
  /\ UNCHANGED todo

-----------------------------------------------------------------------------
(* MetricGathererLoop.                                                     *)

\* Determine the version, fetch and store.  Without a pool, or an entry in
\* monitored_db_cache, no query reaches the server.
Fetch(h, m, s) ==
  /\ status[<<h, m, s>>] = "fetch"
  /\ status' = [status EXCEPT ![<<h, m, s>>] = "wait"]
  /\ DBGetPGVersion(h, h \in monitored_db_conn_cache /\ h \in DOMAIN monitored_dbs)
  /\ UNCHANGED <<world, settings, mainloop, shared, hosts, interval, control_ch>>

\* The select's ticker case.
ReceiveTick(h, m, s) ==
  /\ status[<<h, m, s>>] = "wait"
  /\ status' = [status EXCEPT ![<<h, m, s>>] = "fetch"]
  /\ UNCHANGED <<world, versions, settings, mainloop, shared, hosts, interval, control_ch>>

\* The select's channel case.
ReceiveControl(h, m, s) ==
  LET i == <<h, m, s>> IN
  /\ status[i] = "wait"
  /\ control_ch[i] # <<>>
  /\ control_ch' = [control_ch EXCEPT ![i] = <<>>]
  /\ \/ /\ Head(control_ch[i]).Action = "START"
        /\ interval' = [interval EXCEPT ![i] = Head(control_ch[i]).interval]
        /\ status' = [status EXCEPT ![i] = "fetch"]
     \/ /\ Head(control_ch[i]).Action = "STOP"
        /\ interval' = [interval EXCEPT ![i] = 0]
        /\ status' = [status EXCEPT ![i] = "none"]
  /\ UNCHANGED <<world, versions, settings, mainloop, shared, hosts>>

-----------------------------------------------------------------------------

Monitor ==
  \/ \E h \in Hosts : ConsiderHost(h)
  \/ \E m \in MetricNames :
       StartGatherer(m) \/ StopMetric(m) \/ IgnoreMetric(m) \/ UpdateInterval(m)

Shutdown ==
  \/ EndFirstRound \/ BeginShutdownPass \/ EndShutdownPass
  \/ \E h \in Hosts, m \in MetricNames : CheckGatherer(h, m)

Gatherer(h, m, s) == Fetch(h, m, s) \/ ReceiveTick(h, m, s) \/ ReceiveControl(h, m, s)

Next ==
  \/ Change
  \/ \E h \in Hosts : VersionExpires(h)
  \/ ReadConfig(TRUE) \/ ReadConfig(FALSE) \/ FailToReadConfig
  \/ Monitor \/ Shutdown
  \/ \E h \in Hosts, m \in MetricNames, s \in Slots : Gatherer(h, m, s)

Spec == Init /\ [][Next]_vars

\* The goroutines run and time passes; the configuration database answers again
\* and again when the definitions are due; a fetch ends (statements have a
\* timeout, and the storage channel is drained); a select picks at random among
\* the cases that are ready, so that ticks do not hide a control message.
Fairness ==
  /\ WF_vars(Monitor) /\ WF_vars(Shutdown)
  /\ SF_vars(ReadConfig(TRUE))
  /\ \A h \in Hosts : WF_vars(VersionExpires(h))
  /\ \A h \in Hosts, m \in MetricNames, s \in Slots :
       /\ WF_vars(Fetch(h, m, s) \/ ReceiveTick(h, m, s))
       /\ SF_vars(ReceiveControl(h, m, s))

FairSpec == Spec /\ Fairness

-----------------------------------------------------------------------------
(* Properties.                                                             *)

Messages == [Action : {"START", "STOP"}, interval : Nat]

TypeOK ==
  /\ known \in [Hosts -> Roles \cup {"none"}]
  /\ fresh \in [Hosts -> BOOLEAN]
  /\ pc \in {"sleep", "monitor", "shutdown", "stuck"}
  /\ mainLoopCount \in 0 .. 2
  /\ monitored_dbs \in Configs \cup {[h \in {} |-> NoMetrics]}
  /\ prevLoopMonitoredDBs \subseteq Hosts
  /\ metric_def_map \subseteq MetricNames
  /\ hostsToShutDownDueToRoleChange \subseteq Hosts
  /\ monitored_db_conn_cache \subseteq Hosts
  /\ host_metric_interval_map \in [Pairs -> Nat]
  /\ control_channels \in [Pairs -> 0 .. MaxInstances]
  /\ todoMetrics \subseteq MetricNames
  /\ status \in [Instances -> {"none", "fetch", "wait"}]
  /\ interval \in [Instances -> Nat]
  /\ control_ch \in [Instances -> Seq(Messages)]
  /\ \A i \in Instances : Len(control_ch[i]) <= 1

Owned(h, m, s) == control_channels[<<h, m>>] = s

Runs(h, m, s) == status[<<h, m, s>>] # "none"

\* A gatherer the main loop has a channel to runs and has not been told to stop,
\* and every other gatherer that runs has a STOP waiting for it.  So none runs on
\* unseen, and the main loop never talks to one that is gone, however long a
\* gatherer takes to look at its channel and however often it is replaced.
NoOrphans ==
  \A h \in Hosts, m \in MetricNames, s \in Slots :
    /\ Owned(h, m, s) => Runs(h, m, s) /\ control_ch[<<h, m, s>>] # <<STOP>>
    /\ Runs(h, m, s) /\ ~Owned(h, m, s) => control_ch[<<h, m, s>>] = <<STOP>>
    /\ ~Runs(h, m, s) => control_ch[<<h, m, s>>] = <<>>

\* The interval a gatherer works with, or is about to be told, is the one in
\* host_metric_interval_map, from which the main loop judges whether to tell it.
IntervalPropagates ==
  \A h \in Hosts, m \in MetricNames, s \in Slots :
    Owned(h, m, s) =>
      LET n == host_metric_interval_map[<<h, m>>] IN
      IF control_ch[<<h, m, s>>] = <<>> THEN interval[<<h, m, s>>] = n
                                    ELSE control_ch[<<h, m, s>>] = <<START(n)>>

\* After a shutdown pass no database that was removed or is to be ignored has a
\* gatherer in charge or a connection pool, however the configuration and the
\* roles changed since the round began.
SleepsTidy ==
  pc = "sleep" /\ mainLoopCount = 2 =>
    /\ \A h \in monitored_db_conn_cache : ~ToBeClosed(h)
    /\ \A h \in Hosts, m \in MetricNames : ToBeClosed(h) => ~HasChannel(h, m)

\* The interval that the stored configuration asks for, zero for none.
Wanted(h, m) ==
  IF /\ h \in DOMAIN stored_config
     /\ ~(stored_config[h].OnlyIfMaster /\ role[h] = "standby")
     /\ \E x \in DOMAIN stored_config[h].Metrics : Alias(x) = m
     /\ m = RECO_METRIC_NAME \/ m \in stored_defs
  THEN Interval(stored_config[h].Metrics, m)
  ELSE 0

Settled ==
  \A h \in Hosts, m \in MetricNames :
    LET running == {s \in Slots : Runs(h, m, s)} IN
    IF Wanted(h, m) = 0
    THEN running = {}
    ELSE \E s \in Slots : running = {s} /\ interval[<<h, m, s>>] = Wanted(h, m)

\* Once nothing changes any more, and the databases can be reached, exactly the
\* gatherers run that the configuration asks for, with its intervals.
Converges ==
  <>[](\A h \in Hosts : reachable[h]) => <>[]Settled

\* The main loop comes round: it goes to sleep again and again.
ComesRound == []<>(pc = "sleep")

\* A database that the main loop knows to be a standby, and that has a
\* configuration for that, is gathered by that configuration.
StandbyConfigUsed ==
  pc = "sleep" /\ mainLoopCount = 2 =>
    \A h \in DOMAIN monitored_dbs, m \in MetricNames :
      LET db == monitored_dbs[h] IN
      /\ hostLastKnownStatusInRecovery[h]
      /\ HasStandbyConfig(db)
      /\ HasChannel(h, m)
      => host_metric_interval_map[<<h, m>>] = Interval(db.MetricsStandby, m)
=============================================================================
