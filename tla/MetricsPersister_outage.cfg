CONSTANTS
  Datastore = "graphite"
  InfluxHostCount = 1
  PERSIST_QUEUE_MAX_SIZE = 3
  RetryLimit = 2
  ChannelCapacity = 1
  Healths = {"up", "down"}
  Reliable = {}
  MaxItems = 6
  MaxBatch = 2

SPECIFICATION FairSpec

INVARIANT OutageLosesNothing
