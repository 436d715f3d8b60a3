CONSTANTS
  Hosts = {"h1"}
  MetricNames = {"a"}
  RecoMetrics = {}
  RECO_METRIC_NAME = "recommendations"
  MonitoredDatabases <- MCSmall
  Configs <- OneConverge
  DefinedMetrics = {{"a"}, {}}
  MaxInstances = 2
  MaxChanges = 2

SPECIFICATION FairSpec

PROPERTY Converges
