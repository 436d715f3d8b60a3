SPECIFICATION Spec
CONSTANTS
  Callers = {c1, c2}
  Scrapes = {c1, c2}
  NoCache = {c1}
  DbTypes = {"postgres", "pooler"}
  Optional <- MCOptional
  MaxGeneration = 2
  Gatherers = {"g1", "g2"}
  Dbs = {"d1"}
  DbOf <- MCDbOf
  Metrics <- MCMetrics
  MaxAge = 1
  MaxWait = 1
  Order <- MCOrder
  Objects = {"x", "y"}
  Hashes = {1, 2}
  Ignored = {"y"}
  FirstObjects <- MCFirstObjects
  MaxAlterations = 2
  MaxFiles = 2
  MaxLines = 1
  MaxErrors = 1
  RemovesCurrent = FALSE
  TicksPerDay = 5
  MetricAttrs <- MCNightAttrs
  HostConfigs <- MCNoHostConfig
PROPERTIES
  NightsArePaused
CHECK_DEADLOCK FALSE
