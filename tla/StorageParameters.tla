-------------------------- MODULE StorageParameters -------------------------
(***************************************************************************)
(* What the batcher and the persister have in common: the stores that are  *)
(* written to, the channel between the two, and the sizes of both.         *)
(***************************************************************************)
EXTENDS Naturals

CONSTANTS
  Datastore,               \* --datastore
  InfluxHostCount,         \* influx_host_count: how many stores are written to
  PERSIST_QUEUE_MAX_SIZE,  \* batches a retry queue holds (10000)
  RetryLimit,              \* the limit argument of ProcessRetryQueue (100)
  ChannelCapacity,         \* capacity of storage_ch (10000)
  Healths,                 \* the conditions a store may get into
  Reliable,                \* stores that are never in any condition but "up"
  MaxItems                 \* bound: messages gathered, data produced

Datastores == {"influx", "postgres", "graphite", "json"}

ASSUME PersisterAssumption ==
  /\ Datastore \in Datastores
  /\ InfluxHostCount \in Nat \ {0}
  /\ Datastore # "influx" => InfluxHostCount = 1
  /\ PERSIST_QUEUE_MAX_SIZE \in Nat \ {0}
  /\ RetryLimit \in Nat \ {0}
  /\ ChannelCapacity \in Nat \ {0}
  /\ Healths \subseteq {"up", "down", "flaky"}
  /\ Reliable \subseteq 1 .. InfluxHostCount
  /\ MaxItems \in Nat

Stores == 1 .. InfluxHostCount
=============================================================================
