---------------------------- MODULE VersionCache ----------------------------
(***************************************************************************)
(* What the gatherer knows of one server: db_pg_version_map, filled by any *)
(* number of concurrent calls of DBGetPGVersion and read by all of them.   *)
(* A call reads the entry, then asks the server one query after the other, *)
(* then stores a new entry; the server may change or go away in between.   *)
(***************************************************************************)
EXTENDS Naturals, Sequences

CONSTANTS
  Callers,         \* goroutines that call it: gatherers, the main loop, scrapes
  Scrapes,         \* those of them that are Prometheus scrapes
  NoCache,         \* those that ask for no cache: the main loop, synchronous scrapes
  DbTypes,         \* the kinds of server to consider: "postgres", "pooler"
  Optional,        \* the queries after the first, in their order, less those that
                   \* the server's version or a flag excludes
  MaxGeneration    \* bound on the changes of the server

OptionalFields == {Optional[i] : i \in DOMAIN Optional}
Fields == {"ver"} \cup OptionalFields
\* Of an entry read before a fetch only these may find their way into the new one.
Carried == OptionalFields \cap {"exec_env", "approx_size"}

ASSUME VersionAssumption ==
  /\ Scrapes \subseteq Callers
  /\ NoCache \subseteq Callers
  /\ DbTypes \subseteq {"postgres", "pooler"}
  /\ Optional \in Seq({"system_identifier", "exec_env", "approx_size", "superuser", "extensions"})
  /\ Optional # <<>>
  /\ "approx_size" \in OptionalFields => "exec_env" \in OptionalFields
  /\ MaxGeneration \in Nat \ {0}

VARIABLES
  dbType,          \* kind of the server, fixed
  generation,      \* counts what happened to the server: upgrades, fail-overs, ...
  reachable,       \* it answers
  entry,           \* db_pg_version_map[dbUnique], each field the generation it
                   \* tells of, of the execution environment 1 if it is known
  fresh,           \* LastCheckedOn is less than two minutes ago
  call,            \* what each call is about to do
  ver,             \* locals of the calls: the entry read first, as far as it is used
  verNew,          \* and the entry to be stored
  since,           \* history: the generation at which each call began
  wasUp,           \* history: the server was reachable at some time during the call
  entrySince       \* history: the generation at which the call began that stored the entry

\* The calls whose end UpWasReached is about.
Reporting == Scrapes \cap NoCache

theServer == <<dbType, generation, reachable>>
cacheVars == <<entry, fresh, entrySince>>
versionVars == <<theServer, cacheVars, call, ver, verNew, since, wasUp>>

\* Field 0: not known, as in the zero value of DBVersionMapEntry.
NoInfo == [f \in Fields |-> 0]
NothingRead == [f \in Carried |-> 0]
Places == {"idle", "main", "store"} \cup OptionalFields

VersionInit ==
  /\ dbType \in DbTypes
  /\ generation = 1
  /\ reachable \in BOOLEAN
  /\ entry = NoInfo /\ fresh = FALSE /\ entrySince = 0
  /\ call = [c \in Callers |-> "idle"]
  /\ ver = [c \in Callers |-> NothingRead]
  /\ verNew = [c \in Callers |-> NoInfo]
  /\ since = [c \in Callers |-> 0]
  /\ wasUp = [c \in Reporting |-> FALSE]

-----------------------------------------------------------------------------
(* A call.                                                                 *)

\* The end of a call.  The locals go out of scope with it.
Return(c) ==
  /\ call' = [call EXCEPT ![c] = "idle"]
  /\ ver' = [ver EXCEPT ![c] = NothingRead]
  /\ verNew' = [verNew EXCEPT ![c] = NoInfo]
  /\ since' = [since EXCEPT ![c] = 0]
  /\ wasUp' = [d \in Reporting |-> d # c /\ wasUp[d]]

\* The look at the map under its lock; the two locks taken here and before the
\* queries are the map's, held for the look only, and a copy of the database's.
MayUseCache(c) == c \notin NoCache /\ fresh

CallHits(c) ==
  /\ call[c] = "idle"
  /\ MayUseCache(c)
  /\ UNCHANGED versionVars

CallMisses(c) ==
  /\ call[c] = "idle"
  /\ ~MayUseCache(c)
  /\ call' = [call EXCEPT ![c] = "main"]
  /\ ver' = [ver EXCEPT ![c] = [f \in Carried |-> entry[f]]]
  /\ since' = [since EXCEPT ![c] = generation]
  /\ wasUp' = [d \in Reporting |-> IF d = c THEN reachable ELSE wasUp[d]]
  /\ UNCHANGED <<theServer, cacheVars, verNew>>

\* The query for version, recovery state and name; of a pooler, its version.
MainQuery(c) ==
  /\ call[c] = "main"
  /\ reachable
  /\ verNew' = [verNew EXCEPT ![c]["ver"] = generation]
  /\ call' = [call EXCEPT ![c] = IF dbType = "pooler" THEN "store" ELSE Optional[1]]
  /\ UNCHANGED <<theServer, cacheVars, ver, since, wasUp>>

\* It fails; a pooler may also answer with a version that does not look like one.
MainQueryFails(c) ==
  /\ call[c] = "main"
  /\ ~reachable \/ dbType = "pooler"
  /\ Return(c)
  /\ UNCHANGED <<theServer, cacheVars>>

\* A mutant of HidesError: callers that want no cached answer get it too.
HidesErrorAlways(c) == dbType # "pooler"

\* Then the caller gets no error but the entry read at the beginning, even if there
\* was none, unless it is a pooler or the caller wants no cached answer.
HidesError(c) == dbType # "pooler" /\ c \notin NoCache

\* A mutant of Answer: rights are carried over as well.
AnswerCarriesRights(c, f) ==
  IF f = "exec_env" THEN IF ver[c][f] # 0 \/ reachable THEN 1 ELSE 0
  ELSE IF f = "superuser" /\ entry[f] # 0 THEN entry[f]
  ELSE IF reachable THEN generation ELSE 0

\* The size is asked for in one environment only, so not if that is not known.
NotAsked(c, f) == f = "approx_size" /\ verNew[c]["exec_env"] = 0

\* The execution environment, which does not change, is carried over from the entry
\* read at the beginning of the call if it is known there, the size if its query fails.
Answer(c, f) ==
  IF f = "exec_env" THEN IF ver[c][f] # 0 \/ reachable THEN 1 ELSE 0
  ELSE IF NotAsked(c, f) THEN 0
  ELSE IF reachable THEN generation
  ELSE IF f = "approx_size" THEN ver[c][f]
  ELSE 0

OptionalQuery(c) ==
  \E i \in DOMAIN Optional :
    /\ call[c] = Optional[i]
    /\ verNew' = [verNew EXCEPT ![c][Optional[i]] = Answer(c, Optional[i])]
    /\ call' = [call EXCEPT ![c] = IF i + 1 \in DOMAIN Optional THEN Optional[i + 1] ELSE "store"]
    /\ UNCHANGED <<theServer, cacheVars, ver, since, wasUp>>

\* A mutant of Store: what is not known is left as it was.
StoreMerged(c) ==
  /\ call[c] = "store"
  /\ entry' = [f \in Fields |-> IF verNew[c][f] # 0 THEN verNew[c][f] ELSE entry[f]]
  /\ fresh' = TRUE
  /\ entrySince' = since[c]
  /\ Return(c)
  /\ UNCHANGED theServer

Store(c) ==
  /\ call[c] = "store"
  /\ entry' = verNew[c]
  /\ fresh' = TRUE
  /\ entrySince' = since[c]
  /\ Return(c)
  /\ UNCHANGED theServer

DBGetPGVersion(c) ==
  CallHits(c) \/ CallMisses(c) \/ MainQuery(c) \/ MainQueryFails(c) \/ OptionalQuery(c) \/ Store(c)

-----------------------------------------------------------------------------
(* The server and the clock.                                               *)

\* An upgrade, a fail-over, a change of rights or extensions.
ServerChanges ==
  /\ generation < MaxGeneration
  /\ generation' = generation + 1
  /\ UNCHANGED <<dbType, reachable, cacheVars, call, ver, verNew, since, wasUp>>

ServerStopsOrStarts ==
  /\ reachable' = ~reachable
  /\ wasUp' = [c \in Reporting |-> wasUp[c] \/ (call[c] # "idle" /\ reachable')]
  /\ UNCHANGED <<dbType, generation, cacheVars, call, ver, verNew, since>>

TwoMinutesPass ==
  /\ fresh
  /\ fresh' = FALSE
  /\ UNCHANGED <<theServer, entry, entrySince, call, ver, verNew, since, wasUp>>

VersionNext ==
  \/ \E c \in Callers : DBGetPGVersion(c)
  \/ ServerChanges \/ ServerStopsOrStarts \/ TwoMinutesPass

VersionSpec == VersionInit /\ [][VersionNext]_versionVars

\* The clock goes on, and calls are made and end.
VersionFairness ==
  /\ WF_versionVars(TwoMinutesPass)
  /\ \A c \in Callers : WF_versionVars(DBGetPGVersion(c))

-----------------------------------------------------------------------------
(* Properties.                                                             *)

CallTypeOK ==
  /\ call \in [Callers -> Places]
  /\ ver \in [Callers -> [Carried -> 0 .. generation]]
  /\ verNew \in [Callers -> [Fields -> 0 .. generation]]
  /\ since \in [Callers -> 0 .. generation]
  /\ wasUp \in [Reporting -> BOOLEAN]

\* Types; what is known of the server never runs ahead of it, and only an entry with a
\* version may be used.
VersionTypeOK ==
  /\ dbType \in {"postgres", "pooler"}
  /\ generation \in 1 .. MaxGeneration
  /\ reachable \in BOOLEAN
  /\ entry \in [Fields -> 0 .. generation]
  /\ fresh \in BOOLEAN
  /\ entrySince \in 0 .. generation
  /\ fresh => entry["ver"] # 0
  /\ CallTypeOK

\* Whatever calls overlap: what an entry tells was true at some time after the
\* call began that stored it.  An entry may be replaced by one that is older, but
\* never by one that is older than the call it came from, and nothing but the
\* execution environment and the size survive from an entry before.  So rights that
\* were withdrawn and roles that changed are not carried from fetch to fetch.
NotOlderThanItsCall ==
  \A f \in Fields \ Carried : entry[f] # 0 => entry[f] >= entrySince

\* A call that asked the server ends without an error.
SaysUp(c) == Store(c) \/ (MainQueryFails(c) /\ HidesError(c))

\* A scrape that does not use the cache reports instance_up = 1 only if the
\* server could be reached while it was looking.
UpWasReached ==
  [][\A c \in Reporting : SaysUp(c) => wasUp[c]]_versionVars

\* Everything that is known is known of the server as it is.
UpToDate ==
  /\ \A f \in Fields \ {"exec_env"} : entry[f] = generation
  /\ "exec_env" \in Fields => entry["exec_env"] # 0

\* However the fetches race and fail: once a server no longer goes away its entry
\* becomes, and stays, what the server is.  A late answer of the past, or a
\* field that a failure left empty, does not remain in the cache.
EntryConverges ==
  dbType = "postgres" /\ <>[]reachable => <>[]UpToDate
=============================================================================
