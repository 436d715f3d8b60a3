---------------------------- MODULE MCGatherers ----------------------------
(***************************************************************************)
(* Constants for TLC and the parts of the gatherers that share no state:   *)
(* each behaviour is one of one part, the others staying as they begin.    *)
(***************************************************************************)
EXTENDS VersionCache, MetricFetch, ChangeDetection, LogParser, DisabledTimes

\* Servers: three of the queries; c1 is a scrape in synchronous mode, c2 a gatherer.
MCOptional == <<"exec_env", "approx_size", "superuser">>

MCDbOf == [c \in Gatherers |-> "d1"]
MCMetrics ==
  {{"Cacheable"}, {"SqlSU"}, {"SqlSU", "MasterOnly", "CallsHelperFunctions"},
   {"StandbyOnly", "dummy"}, {"instance_up"}, {"special"}}

\* A table, a setting and a privilege are there, "y" is not.
MCOrder == <<"table", "configuration", "privilege">>
MCFirstObjects == {[k \in Kinds |-> [o \in Objects |-> IF o = "x" THEN 1 ELSE Absent]]}

\* Days and times of one kind, of both, over the weekend, that overlap; of the
\* database, for another metric, in several entries, and one that says nothing.
Restriction(days, times) == [days |-> days, times |-> times]
Entry(ours, days, times) == [ours |-> ours, days |-> days, times |-> times]
MCMetricAttrs ==
  {Restriction({}, {}), Restriction({<<1, 5>>}, {}), Restriction({<<6, 7>>}, {<<0, 2>>}),
   Restriction({}, {<<1, 3>>, <<2, 4>>})}
MCHostConfigs ==
  {<<>>,
   <<Entry(FALSE, {<<2, 2>>}, {})>>,
   <<Entry(FALSE, {}, {<<1, 4>>}), Entry(TRUE, {<<0, 0>>}, {<<1, 3>>}),
     Entry(TRUE, {}, {<<2, 4>>})>>,
   <<Entry(TRUE, {<<7, 7>>}, {}), Entry(FALSE, {<<3, 3>>}, {})>>,
   <<Entry(TRUE, {}, {})>>}
\* "22:00-05:00" on every day or on Saturdays.
MCNightAttrs == {Restriction({}, {<<4, 1>>}), Restriction({<<6, 6>>}, {<<4, 1>>})}
MCNoHostConfig == {<<>>}

VARIABLE part    \* the part that is looked at, fixed

Parts == {"version", "fetch", "change", "log", "disabled"}

Rest ==
  /\ part # "version" => dbType = "postgres" /\ ~reachable
  /\ part # "fetch" => metric = {"special"} /\ ~noHelperFunctions /\ accepts = {}
  /\ part # "log" => pieces[1] = 0
  /\ part # "disabled" => attrs = Restriction({}, {}) /\ perMetric = <<>> /\ ~detailsKnown

Init ==
  /\ part \in Parts
  /\ VersionInit /\ FetchInit /\ ChangeInit /\ LogInit /\ DisabledInit
  /\ Rest

Next ==
  /\ \/ part = "version" /\ VersionNext
     \/ part # "version" /\ UNCHANGED versionVars
  /\ \/ part = "fetch" /\ FetchNext
     \/ part # "fetch" /\ UNCHANGED fetchVars
  /\ \/ part = "change" /\ ChangeNext
     \/ part # "change" /\ UNCHANGED changeVars
  /\ \/ part = "log" /\ LogNext
     \/ part # "log" /\ UNCHANGED logVars
  /\ \/ part = "disabled" /\ DisabledNext
     \/ part # "disabled" /\ UNCHANGED disabledVars
  /\ UNCHANGED part

vars == <<part, versionVars, fetchVars, changeVars, logVars, disabledVars>>
Spec == Init /\ [][Next]_vars

\* Types.
GatherersTypeOK == VersionTypeOK /\ FetchTypeOK /\ ChangeTypeOK /\ LogTypeOK /\ DisabledTypeOK

\* The liveness properties, each of a behaviour of its part under that part's fairness.

\* However fetches of the version race and fail, the cached entry becomes, and stays,
\* what the server is, once the server stays reachable (DBGetPGVersion).
VersionConverges == part = "version" /\ VersionFairness => EntryConverges

\* A database that accepts connections is not counted as unreachable for ever
\* (FetchMetrics, SetDBUnreachable, ClearDBUnreachableStateIfAny).
FetchConverges == part = "fetch" /\ FetchFairness => UnreachableConverges

\* Once objects no longer change, all that the gatherer can notice has been noticed
\* (CheckForPGObjectChangesAndStore).
ChangesConverge == part = "change" /\ ChangeFairness => ChangesNoticed

\* The reader of the server's log comes to its end and stores what it counted
\* (logparseLoop).
LogConverges == part = "log" /\ LogFairness => CatchesUp
=============================================================================
