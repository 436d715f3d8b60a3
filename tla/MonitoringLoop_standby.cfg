CONSTANTS
  Hosts = {"h1"}
  MetricNames = {"a", "b", "reco_x", "recommendations"}
  RecoMetrics = {"reco_x"}
  RECO_METRIC_NAME = "recommendations"
  MonitoredDatabases <- MCWithBoth
  Configs <- OneStandby
  DefinedMetrics = {{"a", "b"}}
  MaxInstances = 2
  MaxChanges = 1

SPECIFICATION Spec

INVARIANT StandbyConfigUsed
