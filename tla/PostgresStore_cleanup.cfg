SPECIFICATION Spec
CONSTANTS
  PGSchemaType = "metric-dbname-time"
  Keys = {"a", "b_realtime"}
  MetricOf <- MCMetricOf
  DbnameOf <- MCDbnameOf
  Realtime = {"b_realtime"}
  PGRetentionDays = 1
  MaxPeriod = 0
  Shapes <- MCSingles
  MaxBacklog = 2
  Cleanups = {"tables"}
PROPERTIES BacklogSurvivesCleanup
CHECK_DEADLOCK FALSE
