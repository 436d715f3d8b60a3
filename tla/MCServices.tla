----------------------------- MODULE MCServices -----------------------------
(***************************************************************************)
(* Constants for TLC and the parts that deal with the services around the  *)
(* program: a DCS and servers, Prometheus, Influx, Graphite.  They share   *)
(* no state here: each behaviour is one of one part, the others staying as *)
(* they begin.                                                             *)
(***************************************************************************)
EXTENDS Discovery, PromCache

\* Clusters: "a" begins with a master and a replica, "b" with two masters.  Member 1 of
\* "a" is not the one of "b", and with the database "2_d" it has the name that its
\* neighbour "1_2" has with "d".
MCScopes == {<<"a">>, <<"b">>}
MCTheScope == <<"a">>
MCEntryName == <<"entry">>
MCTheDatabase == <<"dbname">>
MCScopeOf == [m \in Members |-> IF m \in {"m3", "m4"} THEN <<"b">> ELSE <<"a">>]
MCNameOf == [m \in Members |-> IF m \in {"m1", "m3"} THEN <<"1">> ELSE <<"1", "2">>]
MCDatnames == {<<"d">>, <<"2", "d">>}
MCFirstMembers == [m \in Members |-> IF m = "m2" THEN "replica" ELSE "master"]

\* Two metrics that are stored under one name.
MCStorageName == [m \in PromMetrics |-> "a"]

VARIABLES
  storage_ch, produced, health, cooled, retry_queue, in_error, pc, cur, msg_arr,
  iterations_done, received, written, dropped, rejected, lost,   \* of the persister
  part             \* the part that is looked at, fixed

\* Two Influx stores, of which the second is always up; one Graphite store;
\* the JSON file.  The persister comes with its theorems, for Services_proofs.
Influx == INSTANCE MetricsPersister_proofs WITH
  Datastore <- "influx", InfluxHostCount <- 2, PERSIST_QUEUE_MAX_SIZE <- 1, RetryLimit <- 1,
  ChannelCapacity <- 2, Healths <- {"up", "down", "flaky"}, Reliable <- {2},
  MaxItems <- 4, MaxBatch <- 2
Graphite == INSTANCE MetricsPersister_proofs WITH
  Datastore <- "graphite", InfluxHostCount <- 1, PERSIST_QUEUE_MAX_SIZE <- 2, RetryLimit <- 1,
  ChannelCapacity <- 2, Healths <- {"up", "down", "flaky"}, Reliable <- {},
  MaxItems <- 4, MaxBatch <- 2

Json == INSTANCE MetricsPersister_proofs WITH
  Datastore <- "json", InfluxHostCount <- 1, PERSIST_QUEUE_MAX_SIZE <- 2, RetryLimit <- 1,
  ChannelCapacity <- 2, Healths <- {"up", "down", "flaky"}, Reliable <- {},
  MaxItems <- 4, MaxBatch <- 2

\* Postgres with producers that never cease: see Forget.
Postgres == INSTANCE MetricsPersister_proofs WITH
  Datastore <- "postgres", InfluxHostCount <- 1, PERSIST_QUEUE_MAX_SIZE <- 2, RetryLimit <- 1,
  ChannelCapacity <- 1, Healths <- {"up", "down", "flaky"}, Reliable <- {},
  MaxItems <- 4, MaxBatch <- 1

persisterVars ==
  <<storage_ch, produced, health, cooled, retry_queue, in_error, pc, cur, msg_arr,
    iterations_done, received, written, dropped, rejected, lost>>

\* Not a step of the program: data that have met their fate are struck from the
\* history and the others numbered from 1 again.  What the persister does depends on
\* neither, and so Produce never runs out of numbers, in finitely many states.
Renumbered(q, k) == [n \in DOMAIN q |-> {x - k : x \in q[n]}]

NoData == [i \in Postgres!Stores |-> {}]

Forget ==
  /\ pc = "select"
  /\ \E k \in 1 .. produced :
       /\ (k + 1) .. produced = Postgres!DataIn(storage_ch) \cup Postgres!Queued(1)
       /\ produced' = produced - k
       /\ received' = {x - k : x \in Postgres!Queued(1)}
       /\ storage_ch' = Renumbered(storage_ch, k)
       /\ retry_queue' = [i \in Postgres!Stores |-> Renumbered(retry_queue[i], k)]
  /\ written' = NoData /\ dropped' = NoData /\ rejected' = NoData /\ lost' = NoData
  /\ UNCHANGED <<health, cooled, in_error, pc, cur, msg_arr, iterations_done>>

Parts == {"discovery", "prometheus", "influx", "graphite", "json", "postgres"}

Rest ==
  /\ part # "discovery" =>
       DBType = "patroni" /\ DcsType = "etcd" /\ ~OnlyIfMaster /\ ~hasDBName /\ ~dcsUp
  /\ part # "prometheus" => configured = {}

Init ==
  /\ part \in Parts
  /\ DiscoveryInit /\ PromInit
  /\ IF part = "influx" THEN Influx!Init ELSE Graphite!Init
  /\ Rest

Next ==
  /\ \/ part = "discovery" /\ DiscoveryNext
     \/ part # "discovery" /\ UNCHANGED discoveryVars
  /\ \/ part = "prometheus" /\ PromNext
     \/ part # "prometheus" /\ UNCHANGED promVars
  /\ \/ part = "influx" /\ Influx!Next
     \/ part = "graphite" /\ Graphite!Next
     \/ part = "json" /\ Json!Next
     \/ part = "postgres" /\ (Postgres!Next \/ Forget)
     \/ part \in {"discovery", "prometheus"} /\ UNCHANGED persisterVars
  /\ UNCHANGED part

vars == <<part, discoveryVars, promVars, persisterVars>>
Spec == Init /\ [][Next]_vars

\* Types.
ServicesTypeOK == DiscoveryTypeOK /\ PromTypeOK

\* Of two Influx stores the failures of one cost the other nothing (MetricsPersister).
StoresIndependent == part = "influx" => Influx!StoresIndependent

\* Graphite and the JSON file, which may take a batch in part, make no datum vanish as
\* long as their retry does not end the process (MetricsPersister, ProcessRetryQueue).
NothingVanishes ==
  /\ part = "graphite" => Graphite!NothingVanishes
  /\ part = "json" => Json!NothingVanishes

\* The liveness properties, each of a behaviour of its part under that part's fairness.

\* Once the DCS and the servers stay reachable, the databases that are monitored are
\* those that the DCS and the servers say (ResolveDatabasesFromPatroni and
\* ResolveDatabasesFromConfigEntry).
ResolvedConverges == part = "discovery" /\ DiscoveryFairness => DiscoveryConverges

\* A backlog does not stand still while batches keep coming, if only the channel is found
\* empty again and again (the default case of MetricsPersister, ProcessRetryQueue).
BacklogDrains == part = "postgres" /\ Postgres!Fairness => Postgres!BacklogDrains

\* Rows of a metric that is not gathered any more disappear from the scrapes (Collect).
StaleRowsDisappear == part = "prometheus" /\ PromFairness => StaleDisappears
=============================================================================
