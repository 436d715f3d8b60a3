SPECIFICATION Spec
CONSTANTS
  PGSchemaType = "metric-dbname-time"
  Keys = {"a", "b_realtime"}
  MetricOf <- MCMetricOf
  DbnameOf <- MCDbnameOf
  Realtime = {"b_realtime"}
  PGRetentionDays = 1
  MaxBacklog = 2
  MaxPeriod = 2
  Shapes <- MCShapes
  Cleanups = {"tables", "dbname"}
INVARIANTS AllOrNothing LossIsNoticed
CHECK_DEADLOCK FALSE
PROPERTIES BacklogDrains
