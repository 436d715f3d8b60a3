CONSTANTS
  Hosts = {"h1"}
  MetricNames = {"a"}
  RecoMetrics = {}
  RECO_METRIC_NAME = "recommendations"
  MonitoredDatabases <- MCSmall
  Configs <- OneZero
  DefinedMetrics = {{"a"}, {}}
  MaxInstances = 2
  MaxChanges = 1

SPECIFICATION FairSpec

PROPERTY ComesRound

CHECK_DEADLOCK FALSE
