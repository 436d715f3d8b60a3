CONSTANTS
  maxBatchSize = 2
  BufferCapacity = 1
  ChannelCapacity = 1
  MaxItems = 5
  MaxSend = 3
  Datapoints <- MCDatapoints
  Datastore = "postgres"
  InfluxHostCount = 1
  PERSIST_QUEUE_MAX_SIZE = 3
  RetryLimit = 2
  Healths = {"up", "down", "flaky"}
  Reliable = {}

SPECIFICATION FairSpec

INVARIANT TypeOK
INVARIANT QueueBounded
INVARIANT ExactlyOnePlace
INVARIANT InOrder
INVARIANT BatchesLimited
INVARIANT AllAccountedFor
PROPERTY ImplementsPersister
PROPERTY ImplementsDelivery
PROPERTY GatheredIsSettled
