----------------------- MODULE MonitoringLoop_proofs -----------------------
(***************************************************************************)
(* Proofs about MonitoringLoop, for any databases, metrics, configurations *)
(* and number of gatherers.                                                *)
(***************************************************************************)
EXTENDS MonitoringLoop, TLAPS

-----------------------------------------------------------------------------
(* Types.                                                                  *)

\* What metric_config may hold.
IsMetricConfig(config) ==
  DOMAIN config \subseteq MetricNames /\ \A m \in DOMAIN config : config[m] \in Nat

\* TypeOK, and the types of what the steps read besides.
TypeInv ==
  /\ TypeOK
  /\ stored_config \in Configs
  /\ stored_defs \in DefinedMetrics
  /\ role \in [Hosts -> Roles]
  /\ hostLastKnownStatusInRecovery \in [Hosts -> BOOLEAN]
  /\ IsMetricConfig(metric_config)
  /\ todoMetrics # {} => host \in Hosts
  /\ pc = "monitor" => todo \subseteq DOMAIN monitored_dbs
  /\ pc = "shutdown" => \A h \in Hosts, m \in MetricNames :
                          <<h, m>> \in todo => HasChannel(h, m)

\* An interval looked up in a metric configuration is a number.
LEMMA IntervalType ==
  ASSUME NEW config, NEW m, IsMetricConfig(config)
  PROVE  Interval(config, m) \in Nat
BY DEF IsMetricConfig, Interval

\* The configuration of a database is one of MonitoredDatabases, so that both
\* its metric configurations are well typed.
LEMMA ConfigType ==
  ASSUME TypeInv, NEW h \in DOMAIN monitored_dbs
  PROVE  /\ IsMetricConfig(monitored_dbs[h].Metrics)
         /\ IsMetricConfig(monitored_dbs[h].MetricsStandby)
<1>1. monitored_dbs \in Configs
  BY DEF TypeInv, TypeOK
<1>2. monitored_dbs[h] \in MonitoredDatabases
  BY <1>1, LoopAssumption
<1> QED
  BY <1>2, LoopAssumption DEF IsMetricConfig

\* An alias of a metric is a metric.
LEMMA AliasType == ASSUME NEW m \in MetricNames PROVE Alias(m) \in MetricNames
BY LoopAssumption DEF Alias

\* A version read leaves the version cache well typed.
LEMMA VersionType ==
  ASSUME TypeInv, NEW h \in Hosts, NEW connected \in BOOLEAN, DBGetPGVersion(h, connected)
  PROVE  /\ known' \in [Hosts -> Roles \cup {"none"}]
         /\ fresh' \in [Hosts -> BOOLEAN]
<1>1. Asks(h, connected) \in BOOLEAN /\ Version(h, connected) \in Roles \cup {"none"}
  BY DEF TypeInv, TypeOK, Asks, Version
<1>2. fresh[h] \/ Asks(h, connected) \in BOOLEAN
  BY <1>1
<1> QED
  BY <1>1, <1>2 DEF TypeInv, TypeOK, DBGetPGVersion

\* A send leaves one message in a channel that was empty.
LEMMA SendType ==
  ASSUME TypeInv, NEW h \in Hosts, NEW m \in MetricNames, NEW msg \in Messages,
         HasChannel(h, m), Send(h, m, msg)
  PROVE  /\ control_ch' \in [Instances -> Seq(Messages)]
         /\ \A i \in Instances : Len(control_ch'[i]) <= 1
<1>1. Channel(h, m) \in Instances
  BY DEF TypeInv, TypeOK, HasChannel, Channel, Pairs, Instances, Slots
<1>2. <<msg>> \in Seq(Messages) /\ Len(<<msg>>) = 1
  OBVIOUS
<1> QED
  BY <1>1, <1>2 DEF TypeInv, TypeOK, Send

\* The initial state is well typed.
LEMMA TypeInvInit == Init => TypeInv
<1> SUFFICES ASSUME Init PROVE TypeInv
  OBVIOUS
<1>1. <<>> \in Seq(Messages) /\ Len(<<>>) = 0 /\ 0 \in 0 .. MaxInstances
  BY LoopAssumption
<1> QED
  BY <1>1 DEF Init, TypeInv, TypeOK, IsMetricConfig, NoMetrics

\* Every step keeps the types.
LEMMA TypeInvStep == TypeInv /\ [Next]_vars => TypeInv'
<1> SUFFICES ASSUME TypeInv, [Next]_vars PROVE TypeInv'
  OBVIOUS
<1> USE DEF TypeInv, TypeOK
<1> USE DEF world, versions, settings, mainloop, shared, hosts, gatherers
<1>0. ASSUME UNCHANGED control_channels PROVE \A h, m : HasChannel(h, m)' = HasChannel(h, m)
  BY <1>0 DEF HasChannel
<1>1. CASE Change
  BY <1>0, <1>1, LoopAssumption DEF Change, Roles
<1>2. ASSUME NEW h \in Hosts, VersionExpires(h) PROVE TypeInv'
  BY <1>0, <1>2 DEF VersionExpires
<1>3. ASSUME NEW refresh \in BOOLEAN, ReadConfig(refresh) PROVE TypeInv'
  BY <1>3, LoopAssumption DEF ReadConfig
<1>4. CASE FailToReadConfig
  BY <1>4, LoopAssumption DEF FailToReadConfig
<1>5. ASSUME NEW h \in Hosts, ConsiderHost(h) PROVE TypeInv'
  <2>1. pc = "monitor" /\ h \in DOMAIN monitored_dbs
    BY <1>5 DEF ConsiderHost
  <2>2. /\ IsMetricConfig(monitored_dbs[h].Metrics)
        /\ IsMetricConfig(monitored_dbs[h].MetricsStandby)
    BY <2>1, ConfigType
  <2>3. /\ known' \in [Hosts -> Roles \cup {"none"}]
        /\ fresh' \in [Hosts -> BOOLEAN]
    BY <1>5, VersionType DEF ConsiderHost
  <2>4. /\ IsMetricConfig(metric_config)'
        /\ todoMetrics' \subseteq MetricNames
        /\ todoMetrics' # {} => host' \in Hosts
        /\ hostLastKnownStatusInRecovery' \in [Hosts -> BOOLEAN]
        /\ hostsToShutDownDueToRoleChange' \subseteq Hosts
    BY <1>5, <2>2 DEF ConsiderHost, IsMetricConfig
  <2>5. /\ monitored_db_conn_cache' \subseteq Hosts
        /\ pc' = "monitor" => todo' \subseteq DOMAIN monitored_dbs'
    BY <1>5 DEF ConsiderHost
  <2> QED
    BY <1>5, <2>3, <2>4, <2>5 DEF ConsiderHost
<1>6. ASSUME NEW m \in MetricNames, StartGatherer(m) PROVE TypeInv'
  <2>1. /\ Alias(m) \in MetricNames
        /\ Interval(metric_config, Alias(m)) \in Nat
        /\ host \in Hosts
    BY <1>6, AliasType, IntervalType DEF StartGatherer, NextMetric
  <2>2. CASE UNCHANGED <<shared, gatherers>>
    BY <1>6, <2>2 DEF StartGatherer, NextMetric
  <2>3. ASSUME NEW s \in Slots,
               control_channels' = [control_channels EXCEPT ![<<host, Alias(m)>>] = s],
               host_metric_interval_map' =
                 [host_metric_interval_map EXCEPT ![<<host, Alias(m)>>] =
                    Interval(metric_config, Alias(m))],
               status' = [status EXCEPT ![<<host, Alias(m), s>>] = "fetch"],
               interval' = [interval EXCEPT ![<<host, Alias(m), s>>] =
                              Interval(metric_config, Alias(m))],
               control_ch' = control_ch
        PROVE  TypeInv'
    <3>1. s \in 0 .. MaxInstances
      BY LoopAssumption DEF Slots
    <3>2. /\ control_channels' \in [Pairs -> 0 .. MaxInstances]
          /\ host_metric_interval_map' \in [Pairs -> Nat]
          /\ status' \in [Instances -> {"none", "fetch", "wait"}]
          /\ interval' \in [Instances -> Nat]
      BY <2>1, <2>3, <3>1
    <3> QED
      BY <1>6, <2>3, <3>2 DEF StartGatherer, NextMetric
  <2> QED
    BY <1>6, <2>2, <2>3 DEF StartGatherer
<1>7. ASSUME NEW h \in Hosts, NEW m \in MetricNames, HasChannel(h, m), ShutDown(h, m)
      PROVE  /\ control_channels' \in [Pairs -> 0 .. MaxInstances]
             /\ control_ch' \in [Instances -> Seq(Messages)]
             /\ \A i \in Instances : Len(control_ch'[i]) <= 1
  <2>1. STOP \in Messages /\ 0 \in 0 .. MaxInstances
    BY LoopAssumption DEF STOP, Messages
  <2> QED
    BY <1>7, <2>1, SendType DEF ShutDown
<1>8. ASSUME NEW m \in MetricNames, StopMetric(m) PROVE TypeInv'
  <2>1. Alias(m) \in MetricNames /\ host \in Hosts
    BY <1>8, AliasType DEF StopMetric, NextMetric
  <2>2. CASE HasChannel(host, Alias(m))
    BY <1>7, <1>8, <2>1, <2>2 DEF StopMetric, NextMetric
  <2>3. CASE ~HasChannel(host, Alias(m))
    BY <1>8, <2>3 DEF StopMetric, NextMetric
  <2> QED
    BY <2>2, <2>3
<1>9. ASSUME NEW m \in MetricNames, IgnoreMetric(m) PROVE TypeInv'
  BY <1>9 DEF IgnoreMetric, NextMetric
<1>10. ASSUME NEW m \in MetricNames, UpdateInterval(m) PROVE TypeInv'
  <2>1. /\ Alias(m) \in MetricNames
        /\ Interval(metric_config, Alias(m)) \in Nat
        /\ host \in Hosts
        /\ HasChannel(host, Alias(m))
    BY <1>10, AliasType, IntervalType DEF UpdateInterval, NextMetric
  <2>2. CASE UNCHANGED <<shared, gatherers>>
    BY <1>10, <2>2 DEF UpdateInterval, NextMetric
  <2>3. CASE Send(host, Alias(m), START(Interval(metric_config, Alias(m))))
    <3>1. START(Interval(metric_config, Alias(m))) \in Messages
      BY <2>1 DEF START, Messages
    <3>2. /\ control_ch' \in [Instances -> Seq(Messages)]
          /\ \A i \in Instances : Len(control_ch'[i]) <= 1
      BY <2>1, <2>3, <3>1, SendType
    <3> QED
      BY <1>10, <2>1, <3>2 DEF UpdateInterval, NextMetric
  <2> QED
    BY <1>10, <2>2, <2>3 DEF UpdateInterval
<1>11. CASE EndFirstRound
  BY <1>11, LoopAssumption DEF EndFirstRound, Sleep, NoMetrics
<1>12. CASE BeginShutdownPass
  BY <1>12 DEF BeginShutdownPass, HasChannel
<1>13. ASSUME NEW h \in Hosts, NEW m \in MetricNames, CheckGatherer(h, m) PROVE TypeInv'
  <2>0. HasChannel(h, m)
    BY <1>13 DEF CheckGatherer
  <2>1. CASE ShutDown(h, m)
    <3>1. \A g \in Hosts, n \in MetricNames :
            <<g, n>> \in todo' => HasChannel(g, n)'
      BY <1>13, <2>1 DEF CheckGatherer, ShutDown, HasChannel, Pairs
    <3> QED
      BY <1>7, <1>13, <2>0, <2>1, <3>1 DEF CheckGatherer
  <2>2. CASE UNCHANGED <<control_channels, control_ch>>
    BY <1>13, <2>2 DEF CheckGatherer, HasChannel
  <2> QED
    BY <1>13, <2>1, <2>2 DEF CheckGatherer
<1>14. CASE EndShutdownPass
  BY <1>14, LoopAssumption DEF EndShutdownPass, Sleep, NoMetrics
<1>15. ASSUME NEW h \in Hosts, NEW m \in MetricNames, NEW s \in Slots, Fetch(h, m, s)
       PROVE  TypeInv'
  <2>1. /\ known' \in [Hosts -> Roles \cup {"none"}]
        /\ fresh' \in [Hosts -> BOOLEAN]
    BY <1>15, VersionType DEF Fetch
  <2> QED
    BY <1>0, <1>15, <2>1 DEF Fetch
<1>16. ASSUME NEW h \in Hosts, NEW m \in MetricNames, NEW s \in Slots, ReceiveTick(h, m, s)
       PROVE  TypeInv'
  BY <1>0, <1>16 DEF ReceiveTick
<1>17. ASSUME NEW h \in Hosts, NEW m \in MetricNames, NEW s \in Slots, ReceiveControl(h, m, s)
       PROVE  TypeInv'
  <2>1. <<h, m, s>> \in Instances
    BY DEF Instances
  <2>2. control_ch[<<h, m, s>>] \in Seq(Messages) /\ control_ch[<<h, m, s>>] # <<>>
    BY <1>17, <2>1 DEF ReceiveControl
  <2>3. Head(control_ch[<<h, m, s>>]).interval \in Nat
    <3>1. Head(control_ch[<<h, m, s>>]) \in Messages
      BY <2>2
    <3> QED
      BY <3>1 DEF Messages
  <2>4. <<>> \in Seq(Messages) /\ Len(<<>>) = 0
    OBVIOUS
  <2>5. /\ control_ch' \in [Instances -> Seq(Messages)]
        /\ \A i \in Instances : Len(control_ch'[i]) <= 1
    <3>1. control_ch' = [control_ch EXCEPT ![<<h, m, s>>] = <<>>]
      BY <1>17 DEF ReceiveControl
    <3> QED
      BY <2>1, <2>4, <3>1
  <2>6. /\ interval' \in [Instances -> Nat]
        /\ status' \in [Instances -> {"none", "fetch", "wait"}]
    <3>1. CASE /\ interval' = [interval EXCEPT ![<<h, m, s>>] =
                                 Head(control_ch[<<h, m, s>>]).interval]
               /\ status' = [status EXCEPT ![<<h, m, s>>] = "fetch"]
      BY <2>1, <2>3, <3>1
    <3>2. CASE /\ interval' = [interval EXCEPT ![<<h, m, s>>] = 0]
               /\ status' = [status EXCEPT ![<<h, m, s>>] = "none"]
      BY <2>1, <3>2
    <3> QED
      BY <1>17, <3>1, <3>2 DEF ReceiveControl
  <2> QED
    BY <1>0, <1>17, <2>5, <2>6 DEF ReceiveControl
<1>18. CASE UNCHANGED vars
  BY <1>0, <1>18 DEF vars
<1> QED
  BY <1>1, <1>2, <1>3, <1>4, <1>5, <1>6, <1>8, <1>9, <1>10, <1>11, <1>12, <1>13, <1>14,
     <1>15, <1>16, <1>17, <1>18
  DEF Next, Monitor, Shutdown, Gatherer

\* The variables keep their types; a control channel holds one message at most.
THEOREM TypeCorrect == Spec => []TypeOK
<1>1. Spec => []TypeInv
  BY TypeInvInit, TypeInvStep, PTL DEF Spec
<1>2. TypeInv => TypeOK
  BY DEF TypeInv
<1> QED
  BY <1>1, <1>2, PTL

-----------------------------------------------------------------------------
(* Control channels.                                                       *)

\* What NoOrphans and IntervalPropagates say of one instance.
InCharge(h, m, s) ==
  /\ Owned(h, m, s) => Runs(h, m, s) /\ control_ch[<<h, m, s>>] # <<STOP>>
  /\ Runs(h, m, s) /\ ~Owned(h, m, s) => control_ch[<<h, m, s>>] = <<STOP>>
  /\ ~Runs(h, m, s) => control_ch[<<h, m, s>>] = <<>>
  /\ Owned(h, m, s) =>
       \/ /\ control_ch[<<h, m, s>>] = <<>>
          /\ interval[<<h, m, s>>] = host_metric_interval_map[<<h, m>>]
       \/ control_ch[<<h, m, s>>] = <<START(host_metric_interval_map[<<h, m>>])>>

AllInCharge == \A h \in Hosts, m \in MetricNames, s \in Slots : InCharge(h, m, s)

\* A START is no STOP.
LEMMA MessagesDiffer == \A n : <<START(n)>> # <<STOP>> /\ <<START(n)>> # <<>> /\ <<STOP>> # <<>>
<1>1. \A n : START(n) # STOP
  BY DEF START, STOP
<1> QED
  BY <1>1

\* The two properties are AllInCharge.
LEMMA InChargeIff == AllInCharge <=> NoOrphans /\ IntervalPropagates
BY MessagesDiffer DEF AllInCharge, InCharge, NoOrphans, IntervalPropagates

\* Steps that touch neither channels nor gatherers keep AllInCharge.
LEMMA InChargeUnchanged ==
  ASSUME AllInCharge, UNCHANGED <<shared, gatherers>>
  PROVE  AllInCharge'
<1>1. /\ control_channels' = control_channels
      /\ host_metric_interval_map' = host_metric_interval_map
      /\ status' = status
      /\ interval' = interval
      /\ control_ch' = control_ch
  BY DEF shared, gatherers
<1>2. SUFFICES ASSUME NEW h \in Hosts, NEW m \in MetricNames, NEW s \in Slots
               PROVE  InCharge(h, m, s)'
  BY DEF AllInCharge
<1>3. InCharge(h, m, s)
  BY DEF AllInCharge
<1> QED
  BY <1>1, <1>3 DEF InCharge, Owned, Runs

\* A gatherer that is told to stop is no longer in charge and has a STOP
\* waiting; the others are not concerned.
LEMMA InChargeShutDown ==
  ASSUME TypeInv, AllInCharge, NEW h \in Hosts, NEW m \in MetricNames,
         HasChannel(h, m), ShutDown(h, m),
         UNCHANGED <<host_metric_interval_map, status, interval>>
  PROVE  AllInCharge'
<1> DEFINE c == control_channels[<<h, m>>]
<1>1. c \in Slots /\ Channel(h, m) = <<h, m, c>>
  BY LoopAssumption DEF TypeInv, TypeOK, HasChannel, Channel, Pairs, Slots
<1>2. /\ control_ch[<<h, m, c>>] = <<>>
      /\ control_ch' = [control_ch EXCEPT ![<<h, m, c>>] = <<STOP>>]
      /\ control_channels' = [control_channels EXCEPT ![<<h, m>>] = 0]
  BY <1>1 DEF ShutDown, Send
<1>3. /\ control_ch \in [Instances -> Seq(Messages)]
      /\ control_channels \in [Pairs -> 0 .. MaxInstances]
  BY DEF TypeInv, TypeOK
<1>4. SUFFICES ASSUME NEW g \in Hosts, NEW n \in MetricNames, NEW s \in Slots
               PROVE  InCharge(g, n, s)'
  BY DEF AllInCharge
<1>5. InCharge(g, n, s)
  BY DEF AllInCharge
<1>6. <<g, n, s>> \in Instances /\ <<g, n>> \in Pairs /\ s # 0
  BY LoopAssumption DEF Instances, Pairs, Slots
<1>7. CASE g = h /\ n = m /\ s = c
  <2>1. control_ch'[<<g, n, s>>] = <<STOP>> /\ control_channels'[<<g, n>>] = 0
    BY <1>2, <1>3, <1>6, <1>7
  <2>2. Runs(g, n, s)
    BY <1>5, <1>7 DEF InCharge, Owned
  <2> QED
    BY <1>6, <2>1, <2>2 DEF InCharge, Owned, Runs
<1>8. CASE g = h /\ n = m /\ s # c
  <2>1. control_ch'[<<g, n, s>>] = control_ch[<<g, n, s>>] /\ control_channels'[<<g, n>>] = 0
    BY <1>2, <1>3, <1>6, <1>8
  <2>2. ~Owned(g, n, s)
    BY <1>8 DEF Owned
  <2> QED
    BY <1>5, <1>6, <2>1, <2>2 DEF InCharge, Owned, Runs
<1>9. CASE ~(g = h /\ n = m)
  <2>1. /\ control_ch'[<<g, n, s>>] = control_ch[<<g, n, s>>]
        /\ control_channels'[<<g, n>>] = control_channels[<<g, n>>]
    BY <1>2, <1>3, <1>6, <1>9
  <2> QED
    BY <1>5, <2>1 DEF InCharge, Owned, Runs
<1> QED
  BY <1>7, <1>8, <1>9

\* A gatherer starts in a slot of its own, with an empty channel and the
\* interval that is noted for it.
LEMMA InChargeStart ==
  ASSUME TypeInv, AllInCharge, NEW m \in MetricNames, StartGatherer(m)
  PROVE  AllInCharge'
<1> DEFINE metric == Alias(m)
           k == Interval(metric_config, metric)
<1>1. metric \in MetricNames /\ host \in Hosts
  BY AliasType DEF StartGatherer, NextMetric, TypeInv
<1>2. CASE UNCHANGED <<shared, gatherers>>
  BY <1>2, InChargeUnchanged
<1>3. ASSUME NEW t \in Slots,
             status[<<host, metric, t>>] = "none",
             control_channels' = [control_channels EXCEPT ![<<host, metric>>] = t],
             host_metric_interval_map' =
               [host_metric_interval_map EXCEPT ![<<host, metric>>] = k],
             status' = [status EXCEPT ![<<host, metric, t>>] = "fetch"],
             interval' = [interval EXCEPT ![<<host, metric, t>>] = k],
             control_ch' = control_ch
      PROVE  AllInCharge'
  <2>1. /\ status \in [Instances -> {"none", "fetch", "wait"}]
        /\ interval \in [Instances -> Nat]
        /\ control_channels \in [Pairs -> 0 .. MaxInstances]
        /\ host_metric_interval_map \in [Pairs -> Nat]
    BY DEF TypeInv, TypeOK
  <2>2. control_channels[<<host, metric>>] = 0
    BY DEF StartGatherer, HasChannel
  <2>3. SUFFICES ASSUME NEW g \in Hosts, NEW n \in MetricNames, NEW s \in Slots
                 PROVE  InCharge(g, n, s)'
    BY DEF AllInCharge
  <2>4. InCharge(g, n, s)
    BY DEF AllInCharge
  <2>5. <<g, n, s>> \in Instances /\ <<g, n>> \in Pairs /\ s # 0
    BY LoopAssumption DEF Instances, Pairs, Slots
  <2>6. CASE g = host /\ n = metric /\ s = t
    <3>1. /\ status'[<<g, n, s>>] = "fetch"
          /\ interval'[<<g, n, s>>] = k
          /\ control_channels'[<<g, n>>] = s
          /\ host_metric_interval_map'[<<g, n>>] = k
      BY <1>3, <2>1, <2>5, <2>6
    <3>2. control_ch[<<g, n, s>>] = <<>>
      BY <1>3, <2>4, <2>6 DEF InCharge, Runs
    <3> QED
      BY <1>3, <3>1, <3>2, MessagesDiffer DEF InCharge, Owned, Runs
  <2>7. CASE g = host /\ n = metric /\ s # t
    <3>1. /\ status'[<<g, n, s>>] = status[<<g, n, s>>]
          /\ control_channels'[<<g, n>>] = t
      BY <1>3, <2>1, <2>5, <2>7
    <3>2. ~Owned(g, n, s)
      BY <2>2, <2>5, <2>7 DEF Owned
    <3> QED
      BY <1>3, <2>4, <2>7, <3>1, <3>2 DEF InCharge, Owned, Runs
  <2>8. CASE ~(g = host /\ n = metric)
    <3>1. /\ status'[<<g, n, s>>] = status[<<g, n, s>>]
          /\ interval'[<<g, n, s>>] = interval[<<g, n, s>>]
          /\ control_channels'[<<g, n>>] = control_channels[<<g, n>>]
          /\ host_metric_interval_map'[<<g, n>>] = host_metric_interval_map[<<g, n>>]
      BY <1>3, <2>1, <2>5, <2>8
    <3> QED
      BY <1>3, <2>4, <3>1 DEF InCharge, Owned, Runs
  <2> QED
    BY <2>6, <2>7, <2>8
<1> QED
  BY <1>2, <1>3 DEF StartGatherer

\* An update waits in the channel of the gatherer in charge, and is noted.
LEMMA InChargeUpdate ==
  ASSUME TypeInv, AllInCharge, NEW m \in MetricNames, UpdateInterval(m)
  PROVE  AllInCharge'
<1> DEFINE metric == Alias(m)
           k == Interval(metric_config, metric)
           c == control_channels[<<host, metric>>]
<1>1. metric \in MetricNames /\ host \in Hosts /\ HasChannel(host, metric)
  BY AliasType DEF UpdateInterval, NextMetric, TypeInv
<1>2. CASE UNCHANGED <<shared, gatherers>>
  BY <1>2, InChargeUnchanged
<1>3. CASE /\ Send(host, metric, START(k))
           /\ host_metric_interval_map' =
                [host_metric_interval_map EXCEPT ![<<host, metric>>] = k]
           /\ UNCHANGED <<control_channels, status, interval>>
  <2>1. c \in Slots /\ Channel(host, metric) = <<host, metric, c>>
    BY <1>1, LoopAssumption DEF TypeInv, TypeOK, HasChannel, Channel, Pairs, Slots
  <2>2. control_ch' = [control_ch EXCEPT ![<<host, metric, c>>] = <<START(k)>>]
    BY <1>3, <2>1 DEF Send
  <2>3. /\ control_ch \in [Instances -> Seq(Messages)]
        /\ host_metric_interval_map \in [Pairs -> Nat]
    BY DEF TypeInv, TypeOK
  <2>4. SUFFICES ASSUME NEW g \in Hosts, NEW n \in MetricNames, NEW s \in Slots
                 PROVE  InCharge(g, n, s)'
    BY DEF AllInCharge
  <2>5. InCharge(g, n, s)
    BY DEF AllInCharge
  <2>6. <<g, n, s>> \in Instances /\ <<g, n>> \in Pairs
    BY DEF Instances, Pairs
  <2>7. CASE g = host /\ n = metric /\ s = c
    <3>1. /\ control_ch'[<<g, n, s>>] = <<START(k)>>
          /\ host_metric_interval_map'[<<g, n>>] = k
      BY <1>3, <2>2, <2>3, <2>6, <2>7
    <3>2. Runs(g, n, s)
      BY <2>5, <2>7 DEF InCharge, Owned
    <3> QED
      BY <1>3, <2>7, <3>1, <3>2, MessagesDiffer DEF InCharge, Owned, Runs
  <2>8. CASE g = host /\ n = metric /\ s # c
    <3>1. control_ch'[<<g, n, s>>] = control_ch[<<g, n, s>>] /\ ~Owned(g, n, s)
      BY <2>2, <2>3, <2>6, <2>8 DEF Owned
    <3> QED
      BY <1>3, <2>5, <3>1 DEF InCharge, Owned, Runs
  <2>9. CASE ~(g = host /\ n = metric)
    <3>1. /\ control_ch'[<<g, n, s>>] = control_ch[<<g, n, s>>]
          /\ host_metric_interval_map'[<<g, n>>] = host_metric_interval_map[<<g, n>>]
      BY <1>3, <2>2, <2>3, <2>6, <2>9
    <3> QED
      BY <1>3, <2>5, <3>1 DEF InCharge, Owned, Runs
  <2> QED
    BY <2>7, <2>8, <2>9
<1> QED
  BY <1>2, <1>3 DEF UpdateInterval

\* A gatherer that has received its control message: START sets the interval it
\* was told, STOP ends it.
LEMMA InChargeReceive ==
  ASSUME TypeInv, AllInCharge,
         NEW h \in Hosts, NEW m \in MetricNames, NEW s \in Slots, ReceiveControl(h, m, s)
  PROVE  AllInCharge'
<1> DEFINE i == <<h, m, s>>
           msg == Head(control_ch[i])
<1>1. /\ status \in [Instances -> {"none", "fetch", "wait"}]
      /\ interval \in [Instances -> Nat]
      /\ control_ch \in [Instances -> Seq(Messages)]
  BY DEF TypeInv, TypeOK
<1>2. /\ status[i] = "wait"
      /\ control_ch[i] # <<>>
      /\ control_ch' = [control_ch EXCEPT ![i] = <<>>]
      /\ control_channels' = control_channels
      /\ host_metric_interval_map' = host_metric_interval_map
  BY DEF ReceiveControl, shared
<1>3. SUFFICES ASSUME NEW g \in Hosts, NEW n \in MetricNames, NEW t \in Slots
               PROVE  InCharge(g, n, t)'
  BY DEF AllInCharge
<1>4. InCharge(g, n, t) /\ InCharge(h, m, s)
  BY DEF AllInCharge
<1>5. <<g, n, t>> \in Instances /\ i \in Instances
  BY DEF Instances
<1>6. CASE g = h /\ n = m /\ t = s
  <2>1. control_ch'[i] = <<>>
    BY <1>1, <1>2, <1>5
  <2>2. CASE Owned(h, m, s)
    <3>1. control_ch[i] = <<START(host_metric_interval_map[<<h, m>>])>>
      BY <1>2, <1>4, <2>2 DEF InCharge
    <3>2. msg = START(host_metric_interval_map[<<h, m>>])
      BY <3>1
    <3>3. /\ interval' = [interval EXCEPT ![i] = host_metric_interval_map[<<h, m>>]]
          /\ status' = [status EXCEPT ![i] = "fetch"]
      BY <3>2 DEF ReceiveControl, START
    <3>4. /\ interval'[i] = host_metric_interval_map[<<h, m>>]
          /\ status'[i] = "fetch"
      BY <1>1, <1>5, <3>3
    <3> QED
      BY <1>2, <1>6, <2>1, <2>2, <3>4, MessagesDiffer DEF InCharge, Owned, Runs
  <2>3. CASE ~Owned(h, m, s)
    <3>1. control_ch[i] = <<STOP>>
      BY <1>2, <1>4, <2>3 DEF InCharge, Runs
    <3>2. msg = STOP
      BY <3>1
    <3>3. status' = [status EXCEPT ![i] = "none"]
      BY <3>2 DEF ReceiveControl, STOP
    <3>4. status'[i] = "none"
      BY <1>1, <1>5, <3>3
    <3> QED
      BY <1>2, <1>6, <2>1, <2>3, <3>4 DEF InCharge, Owned, Runs
  <2> QED
    BY <2>2, <2>3
<1>7. CASE ~(g = h /\ n = m /\ t = s)
  <2>1. <<g, n, t>> # i
    BY <1>7
  <2>2. /\ control_ch'[<<g, n, t>>] = control_ch[<<g, n, t>>]
        /\ status'[<<g, n, t>>] = status[<<g, n, t>>]
        /\ interval'[<<g, n, t>>] = interval[<<g, n, t>>]
    BY <1>1, <1>5, <2>1 DEF ReceiveControl
  <2> QED
    BY <1>2, <1>4, <2>2 DEF InCharge, Owned, Runs
<1> QED
  BY <1>6, <1>7

\* A gatherer that fetches or waits goes on running.
LEMMA InChargeWorks ==
  ASSUME TypeInv, AllInCharge,
         NEW h \in Hosts, NEW m \in MetricNames, NEW s \in Slots,
         Fetch(h, m, s) \/ ReceiveTick(h, m, s)
  PROVE  AllInCharge'
<1>1. /\ status \in [Instances -> {"none", "fetch", "wait"}]
      /\ <<h, m, s>> \in Instances
  BY DEF TypeInv, TypeOK, Instances
<1>2. PICK st \in {"fetch", "wait"} :
        /\ status[<<h, m, s>>] # "none"
        /\ status' = [status EXCEPT ![<<h, m, s>>] = st]
  BY DEF Fetch, ReceiveTick
<1>3. /\ control_channels' = control_channels
      /\ host_metric_interval_map' = host_metric_interval_map
      /\ interval' = interval
      /\ control_ch' = control_ch
  BY DEF Fetch, ReceiveTick, shared
<1>4. SUFFICES ASSUME NEW g \in Hosts, NEW n \in MetricNames, NEW t \in Slots
               PROVE  InCharge(g, n, t)'
  BY DEF AllInCharge
<1>5. InCharge(g, n, t) /\ <<g, n, t>> \in Instances
  BY DEF AllInCharge, Instances
<1>6. Runs(g, n, t)' <=> Runs(g, n, t)
  BY <1>1, <1>2, <1>5 DEF Runs
<1> QED
  BY <1>3, <1>5, <1>6 DEF InCharge, Owned

\* At first there is neither a channel nor a gatherer.
LEMMA InChargeInit == Init => AllInCharge
<1> SUFFICES ASSUME Init, NEW h \in Hosts, NEW m \in MetricNames, NEW s \in Slots
             PROVE  InCharge(h, m, s)
  BY DEF AllInCharge
<1>1. <<h, m, s>> \in Instances /\ <<h, m>> \in Pairs /\ s # 0
  BY LoopAssumption DEF Instances, Pairs, Slots
<1> QED
  BY <1>1 DEF Init, InCharge, Owned, Runs

\* Every step keeps AllInCharge: the cases are those of the lemmas above.
LEMMA InChargeStep == TypeInv /\ AllInCharge /\ [Next]_vars => AllInCharge'
<1> SUFFICES ASSUME TypeInv, AllInCharge, [Next]_vars PROVE AllInCharge'
  OBVIOUS
<1>1. CASE Change
  BY <1>1, InChargeUnchanged DEF Change
<1>2. ASSUME NEW h \in Hosts, VersionExpires(h) PROVE AllInCharge'
  BY <1>2, InChargeUnchanged DEF VersionExpires
<1>3. ASSUME NEW refresh \in BOOLEAN, ReadConfig(refresh) PROVE AllInCharge'
  BY <1>3, InChargeUnchanged DEF ReadConfig
<1>4. CASE FailToReadConfig
  BY <1>4, InChargeUnchanged DEF FailToReadConfig
<1>5. ASSUME NEW h \in Hosts, ConsiderHost(h) PROVE AllInCharge'
  BY <1>5, InChargeUnchanged DEF ConsiderHost
<1>6. ASSUME NEW m \in MetricNames, StopMetric(m) PROVE AllInCharge'
  <2>1. Alias(m) \in MetricNames /\ host \in Hosts
    BY <1>6, AliasType DEF StopMetric, NextMetric, TypeInv
  <2>2. CASE UNCHANGED <<shared, gatherers>>
    BY <2>2, InChargeUnchanged
  <2>3. CASE /\ HasChannel(host, Alias(m))
             /\ ShutDown(host, Alias(m))
             /\ UNCHANGED <<host_metric_interval_map, status, interval>>
    BY <2>1, <2>3, InChargeShutDown
  <2> QED
    BY <1>6, <2>2, <2>3 DEF StopMetric
<1>7. ASSUME NEW m \in MetricNames, IgnoreMetric(m) PROVE AllInCharge'
  BY <1>7, InChargeUnchanged DEF IgnoreMetric
<1>8. CASE EndFirstRound
  BY <1>8, InChargeUnchanged DEF EndFirstRound, Sleep
<1>9. CASE BeginShutdownPass
  BY <1>9, InChargeUnchanged DEF BeginShutdownPass
<1>10. CASE EndShutdownPass
  BY <1>10, InChargeUnchanged DEF EndShutdownPass, Sleep
<1>11. ASSUME NEW h \in Hosts, NEW m \in MetricNames, CheckGatherer(h, m)
       PROVE  AllInCharge'
  <2>1. HasChannel(h, m)
    BY <1>11 DEF CheckGatherer, TypeInv
  <2>2. CASE ShutDown(h, m)
    BY <1>11, <2>1, <2>2, InChargeShutDown DEF CheckGatherer
  <2>3. CASE UNCHANGED <<control_channels, control_ch>>
    <3>1. UNCHANGED <<shared, gatherers>>
      BY <1>11, <2>3 DEF CheckGatherer, shared, gatherers
    <3> QED
      BY <3>1, InChargeUnchanged
  <2> QED
    BY <1>11, <2>2, <2>3 DEF CheckGatherer
<1>12. CASE UNCHANGED vars
  BY <1>12, InChargeUnchanged DEF vars
<1> QED
  BY <1>1, <1>2, <1>3, <1>4, <1>5, <1>6, <1>7, <1>8, <1>9, <1>10, <1>11, <1>12,
     InChargeStart, InChargeUpdate, InChargeReceive, InChargeWorks
  DEF Next, Monitor, Shutdown, Gatherer

\* The channel map and the gatherers always agree.
LEMMA InChargeAlways == Spec => []AllInCharge
<1>1. Spec => []TypeInv
  BY TypeInvInit, TypeInvStep, PTL DEF Spec
<1> QED
  BY <1>1, InChargeInit, InChargeStep, PTL DEF Spec

\* However often gatherers are stopped and replaced, and however slow they are,
\* none that the loop has no channel to runs on without a STOP, and no channel
\* leads to one that is gone.
THEOREM NoGathererIsOrphaned == Spec => []NoOrphans
BY InChargeAlways, InChargeIff, PTL

\* A gatherer in charge works with the interval the loop has noted, or is told.
THEOREM IntervalsPropagate == Spec => []IntervalPropagates
BY InChargeAlways, InChargeIff, PTL

-----------------------------------------------------------------------------
(* Rounds.                                                                 *)

\* SleepsTidy, and what a round relies on to establish it: pools belong to the
\* databases of this round or the one before, and a shutdown pass still has to
\* visit every gatherer of a database that is to be closed.
RoundInv ==
  /\ SleepsTidy
  /\ monitored_db_conn_cache \subseteq prevLoopMonitoredDBs \cup DOMAIN monitored_dbs
  /\ pc = "sleep" => prevLoopMonitoredDBs = DOMAIN monitored_dbs
  /\ mainLoopCount = 0 => prevLoopMonitoredDBs = {}
  /\ pc = "shutdown" =>
       /\ mainLoopCount > 0
       /\ \A h \in Hosts, m \in MetricNames :
            ToBeClosed(h) /\ HasChannel(h, m) => <<h, m>> \in todo

\* At first there are no databases, pools or channels.
LEMMA RoundInvInit == Init => RoundInv
BY DEF Init, RoundInv, SleepsTidy

\* Steps that leave the main loop's state alone keep RoundInv.
LEMMA RoundInvUnchanged ==
  ASSUME RoundInv,
         UNCHANGED <<pc, mainLoopCount, todo, monitored_dbs, prevLoopMonitoredDBs,
                     hostsToShutDownDueToRoleChange, monitored_db_conn_cache,
                     control_channels>>
  PROVE  RoundInv'
BY DEF RoundInv, SleepsTidy, ToBeClosed, HasChannel

\* Within the loop over the databases only the facts about pools matter.
LEMMA RoundInvMonitor ==
  ASSUME RoundInv, pc' \notin {"sleep", "shutdown"},
         UNCHANGED <<mainLoopCount, monitored_dbs, prevLoopMonitoredDBs>>,
         monitored_db_conn_cache' \subseteq monitored_db_conn_cache \cup DOMAIN monitored_dbs
  PROVE  RoundInv'
BY DEF RoundInv, SleepsTidy

\* The shutdown pass closes what it visits.
LEMMA RoundInvCheck ==
  ASSUME TypeInv, RoundInv, NEW h \in Hosts, NEW m \in MetricNames, CheckGatherer(h, m)
  PROVE  RoundInv'
<1>1. /\ pc = "shutdown"
      /\ todo' = todo \ {<<h, m>>}
      /\ UNCHANGED <<pc, mainLoopCount, monitored_dbs, prevLoopMonitoredDBs,
                     hostsToShutDownDueToRoleChange, monitored_db_conn_cache>>
  BY DEF CheckGatherer, settings, hosts
<1>2. \A g : ToBeClosed(g)' <=> ToBeClosed(g)
  BY <1>1 DEF ToBeClosed
<1>3. /\ \/ control_channels' = [control_channels EXCEPT ![<<h, m>>] = 0]
         \/ control_channels' = control_channels
      /\ ToBeClosed(h) => control_channels' = [control_channels EXCEPT ![<<h, m>>] = 0]
  BY DEF CheckGatherer, ShutDown
<1>4. control_channels \in [Pairs -> 0 .. MaxInstances] /\ <<h, m>> \in Pairs
  BY DEF TypeInv, TypeOK, Pairs
<1>5. ASSUME NEW g \in Hosts, NEW n \in MetricNames, ToBeClosed(g)', HasChannel(g, n)'
      PROVE  <<g, n>> \in todo'
  <2>1. <<g, n>> \in Pairs
    BY DEF Pairs
  <2>2. <<g, n>> # <<h, m>>
    BY <1>2, <1>3, <1>4, <1>5 DEF HasChannel
  <2>3. HasChannel(g, n)
    BY <1>3, <1>4, <1>5, <2>1, <2>2 DEF HasChannel
  <2> QED
    BY <1>1, <1>2, <1>5, <2>2, <2>3 DEF RoundInv
<1> QED
  BY <1>1, <1>5 DEF RoundInv, SleepsTidy

\* Every step keeps RoundInv; the end of the shutdown pass establishes SleepsTidy.
LEMMA RoundInvStep == TypeInv /\ RoundInv /\ [Next]_vars => RoundInv'
<1> SUFFICES ASSUME TypeInv, RoundInv, [Next]_vars PROVE RoundInv'
  OBVIOUS
<1> USE DEF settings, mainloop, shared, hosts
<1>0. mainLoopCount \in 0 .. 2
  BY DEF TypeInv, TypeOK
<1>1. CASE Change
  BY <1>1, RoundInvUnchanged DEF Change
<1>2. ASSUME NEW h \in Hosts, VersionExpires(h) PROVE RoundInv'
  BY <1>2, RoundInvUnchanged DEF VersionExpires
<1>3. ASSUME NEW refresh \in BOOLEAN, ReadConfig(refresh) PROVE RoundInv'
  BY <1>3 DEF ReadConfig, RoundInv, SleepsTidy
<1>4. CASE FailToReadConfig
  BY <1>4 DEF FailToReadConfig, RoundInv, SleepsTidy, ToBeClosed, HasChannel
<1>5. ASSUME NEW h \in Hosts, ConsiderHost(h) PROVE RoundInv'
  <2>1. /\ pc' = "monitor"
        /\ h \in DOMAIN monitored_dbs
        /\ monitored_db_conn_cache' = monitored_db_conn_cache \cup {h}
        /\ UNCHANGED <<mainLoopCount, monitored_dbs, prevLoopMonitoredDBs>>
    BY <1>5 DEF ConsiderHost, TypeInv
  <2> QED
    BY <2>1, RoundInvMonitor
<1>6. ASSUME NEW m \in MetricNames,
             StartGatherer(m) \/ StopMetric(m) \/ IgnoreMetric(m) \/ UpdateInterval(m)
      PROVE  RoundInv'
  <2>1. /\ pc' \in {"monitor", "stuck"}
        /\ UNCHANGED <<mainLoopCount, monitored_dbs, prevLoopMonitoredDBs,
                       monitored_db_conn_cache>>
    BY <1>6 DEF StartGatherer, StopMetric, IgnoreMetric, UpdateInterval, NextMetric
  <2> QED
    BY <2>1, RoundInvMonitor
<1>7. CASE EndFirstRound
  BY <1>7 DEF EndFirstRound, Sleep, RoundInv, SleepsTidy
<1>8. CASE BeginShutdownPass
  <2>1. /\ pc' = "shutdown"
        /\ mainLoopCount > 0
        /\ todo' = {p \in Pairs : control_channels[p] # 0}
        /\ UNCHANGED <<mainLoopCount, monitored_dbs, prevLoopMonitoredDBs,
                       monitored_db_conn_cache, control_channels>>
    BY <1>8 DEF BeginShutdownPass
  <2>2. \A h \in Hosts, m \in MetricNames : HasChannel(h, m)' => <<h, m>> \in todo'
    BY <2>1 DEF HasChannel, Pairs
  <2> QED
    BY <2>1, <2>2 DEF RoundInv, SleepsTidy
<1>9. ASSUME NEW h \in Hosts, NEW m \in MetricNames, CheckGatherer(h, m) PROVE RoundInv'
  BY <1>9, RoundInvCheck
<1>10. CASE EndShutdownPass
  <2>1. /\ pc = "shutdown"
        /\ todo = {}
        /\ monitored_db_conn_cache' =
              monitored_db_conn_cache \ ((prevLoopMonitoredDBs \ DOMAIN monitored_dbs)
                                         \cup hostsToShutDownDueToRoleChange)
        /\ pc' = "sleep"
        /\ mainLoopCount' # 0
        /\ prevLoopMonitoredDBs' = DOMAIN monitored_dbs
        /\ UNCHANGED <<monitored_dbs, hostsToShutDownDueToRoleChange, control_channels>>
    BY <1>0, <1>10 DEF EndShutdownPass, Sleep
  <2>2. \A h \in monitored_db_conn_cache' :
          h \in DOMAIN monitored_dbs /\ h \notin hostsToShutDownDueToRoleChange
    BY <2>1 DEF RoundInv
  <2>3. \A h \in Hosts, m \in MetricNames : ToBeClosed(h) => ~HasChannel(h, m)
    BY <2>1 DEF RoundInv
  <2>4. SleepsTidy'
    BY <2>1, <2>2, <2>3 DEF SleepsTidy, ToBeClosed, HasChannel
  <2> QED
    BY <2>1, <2>2, <2>4 DEF RoundInv
<1>11. ASSUME NEW h \in Hosts, NEW m \in MetricNames, NEW s \in Slots, Gatherer(h, m, s)
       PROVE  RoundInv'
  BY <1>11, RoundInvUnchanged DEF Gatherer, Fetch, ReceiveTick, ReceiveControl
<1>12. CASE UNCHANGED vars
  BY <1>12, RoundInvUnchanged DEF vars
<1> QED
  BY <1>1, <1>2, <1>3, <1>4, <1>5, <1>6, <1>7, <1>8, <1>9, <1>10, <1>11, <1>12
  DEF Next, Monitor, Shutdown

\* When the main loop sleeps after a shutdown pass, no database that was removed
\* or is to be ignored has a channel or a connection pool left.
THEOREM SleepsAreTidy == Spec => []SleepsTidy
<1>1. Spec => []TypeInv
  BY TypeInvInit, TypeInvStep, PTL DEF Spec
<1>2. Spec => []RoundInv
  BY <1>1, RoundInvInit, RoundInvStep, PTL DEF Spec
<1>3. RoundInv => SleepsTidy
  BY DEF RoundInv
<1> QED
  BY <1>2, <1>3, PTL
=============================================================================
