CONSTANTS
  Hosts = {"h1"}
  MetricNames = {"a", "reco_x", "recommendations"}
  RecoMetrics = {"reco_x"}
  RECO_METRIC_NAME = "recommendations"
  MonitoredDatabases <- MCDatabases
  Configs <- OneSafety
  DefinedMetrics = {{"a"}, {}}
  MaxInstances = 2
  MaxChanges = 3

SPECIFICATION Spec

INVARIANT TypeOK
INVARIANT NoOrphans
INVARIANT IntervalPropagates
INVARIANT SleepsTidy

CHECK_DEADLOCK FALSE
