----------------------------- MODULE MetricFetch -----------------------------
(***************************************************************************)
(* FetchMetrics: how a gatherer gets the rows of one metric, from the      *)
(* server or from the cache that the databases of one server share.  Any   *)
(* number of calls run at the same time; the cache's rows and their time   *)
(* stamp have a lock each, and are written and read one after the other.   *)
(***************************************************************************)
EXTENDS Naturals, Sequences

CONSTANTS
  Gatherers,       \* gatherers of the metric at the databases of one server
  Dbs, DbOf,       \* the databases, and that of each gatherer
  Metrics,         \* kinds of metric to consider
  MaxAge,          \* --instance-level-cache-max-seconds, in ticks
  MaxWait          \* bound on the ticks between a question and its answer's use

\* SqlSU, MasterOnly, StandbyOnly, CallsHelperFunctions: as in its definition;
\* Cacheable: it is of the whole server, the server is resolved to its databases,
\* and the interval is longer than MaxAge; dummy: its SQL is empty; instance_up: it
\* is that metric; special: its rows are got elsewhere (change events,
\* recommendations, Pgpool), where errors stay.
Attributes == {"SqlSU", "MasterOnly", "StandbyOnly", "CallsHelperFunctions",
               "Cacheable", "dummy", "instance_up", "special"}

ASSUME FetchAssumption ==
  /\ DbOf \in [Gatherers -> Dbs]
  /\ Metrics \subseteq SUBSET Attributes
  /\ MaxAge \in Nat /\ MaxWait \in Nat \ {0}

\* Ages are counted as far as the properties look.
Oldest == MaxAge + 3 * MaxWait + 1
Never == Oldest + 1
Ages == 0 .. Never
Older(age) == IF age >= Oldest THEN age ELSE age + 1

VARIABLES
  metric,          \* the metric's attributes, fixed
  noHelperFunctions, \* the flag, fixed
  accepts,         \* databases of the server that accept connections
  instanceMetricCache,          \* the age of the rows, Never if there are none
  instanceMetricCacheTimestamp, \* the age of the time stamp
  unreachableDB,   \* databases that refused a connection
  at,              \* where each call is
  vme,             \* what the version cache told the call
  waited,          \* ticks since the call last asked
  asked,           \* the SQL it has sent: "Sql", "SqlSU"
  errors,          \* the errors it got
  result           \* what the last step returned, if it ended a call

instanceCacheVars == <<instanceMetricCache, instanceMetricCacheTimestamp>>
flags == <<metric, noHelperFunctions>>
localVars == <<vme, asked, errors>>
fetchVars == <<flags, accepts, instanceCacheVars, unreachableDB, at, waited, localVars, result>>

Has(a) == a \in metric
Errors == {"refused", "recovery", "other"}
FetchPlaces == {"idle", "look", "copy", "query", "failed", "answered", "put", "stamp"}
Known == [IsSuperuser : BOOLEAN, IsInRecovery : BOOLEAN]
NothingKnown == [IsSuperuser |-> FALSE, IsInRecovery |-> FALSE]
NoResult == [kind |-> "none", error |-> "none", age |-> 0]
Results == [kind : {"none", "nothing", "error", "rows", "cached", "down"},
            error : Errors \cup {"none", "version", "sql", "removed"}, age : Ages]

FetchInit ==
  /\ metric \in Metrics
  /\ noHelperFunctions \in (IF Has("CallsHelperFunctions") THEN BOOLEAN ELSE {FALSE})
  /\ accepts \in SUBSET Dbs
  /\ instanceMetricCache = Never /\ instanceMetricCacheTimestamp = Never
  /\ unreachableDB = {}
  /\ at = [c \in Gatherers |-> "idle"]
  /\ vme = [c \in Gatherers |-> NothingKnown]
  /\ waited = [c \in Gatherers |-> 0]
  /\ asked = [c \in Gatherers |-> <<>>]
  /\ errors = [c \in Gatherers |-> <<>>]
  /\ result = NoResult

-----------------------------------------------------------------------------
\* The call goes on, n ticks after it last asked.
Goto(c, place, n) ==
  /\ at' = [at EXCEPT ![c] = place]
  /\ waited' = [waited EXCEPT ![c] = n]
  /\ result' = NoResult

\* The call returns; its locals go out of scope.
EndFetch(c, kind, error, age) ==
  /\ at' = [at EXCEPT ![c] = "idle"]
  /\ waited' = [waited EXCEPT ![c] = 0]
  /\ vme' = [vme EXCEPT ![c] = NothingKnown]
  /\ asked' = [asked EXCEPT ![c] = <<>>]
  /\ errors' = [errors EXCEPT ![c] = <<>>]
  /\ result' = [kind |-> kind, error |-> error, age |-> age]

\* The SQL that is sent next.  The first condition is about helper functions that
\* may not be used, the second about rights and about the retry.
TriesAgain(c) == errors[c] # <<>>
NextSql(c) ==
  IF /\ Has("SqlSU")
     /\ \/ noHelperFunctions /\ Has("CallsHelperFunctions")
        \/ vme[c].IsSuperuser
        \/ TriesAgain(c)
    THEN "SqlSU"
    ELSE "Sql"

Unwanted(c) ==
  \/ Has("MasterOnly") /\ vme[c].IsInRecovery
  \/ Has("StandbyOnly") /\ ~vme[c].IsInRecovery

\* What the call begins with: the server's version, the metric's definition for it
\* and the extensions that it needs.  Each may end it.  What it will not look at of
\* the version cache is left out.
Relevant(v) ==
  /\ v.IsSuperuser => Has("SqlSU")
  /\ v.IsInRecovery => Has("MasterOnly") \/ Has("StandbyOnly")

BeginFetch(c) ==
  /\ at[c] = "idle"
  /\ \E v \in {w \in Known : Relevant(w)} : vme' = [vme EXCEPT ![c] = v]
  /\ Goto(c, IF Has("Cacheable") THEN "look" ELSE "query", 0)
  /\ UNCHANGED <<flags, accepts, instanceCacheVars, unreachableDB, asked, errors>>

\* No version, no definition for it, or one for newer servers only; no extension.
BeginFetchFails(c) ==
  /\ at[c] = "idle"
  /\ \/ \E e \in {"version", "sql"} : EndFetch(c, "error", e, 0)
     \/ EndFetch(c, "nothing", "none", 0)
  /\ UNCHANGED <<flags, accepts, instanceCacheVars, unreachableDB>>

-----------------------------------------------------------------------------
(* GetFromInstanceCacheIfNotOlderThanSeconds: the stamp, then the rows.    *)

\* A mutant of LookAtStamp: the age is not looked at.
LookAtAnyStamp(c) ==
  /\ at[c] = "look"
  /\ Goto(c, IF instanceMetricCacheTimestamp # Never THEN "copy" ELSE "query", waited[c])
  /\ UNCHANGED <<flags, accepts, instanceCacheVars, unreachableDB, localVars>>

LookAtStamp(c) ==
  /\ at[c] = "look"
  /\ Goto(c, IF instanceMetricCacheTimestamp <= MaxAge THEN "copy" ELSE "query", waited[c])
  /\ UNCHANGED <<flags, accepts, instanceCacheVars, unreachableDB, localVars>>

\* They are not used if the database was removed in the meantime.
CopyRows(c) ==
  /\ at[c] = "copy"
  /\ IF instanceMetricCache = Never
       THEN Goto(c, "query", waited[c]) /\ UNCHANGED localVars
       ELSE EndFetch(c, "cached", "none", instanceMetricCache) \/ EndFetch(c, "error", "removed", 0)
  /\ UNCHANGED <<flags, accepts, instanceCacheVars, unreachableDB>>

-----------------------------------------------------------------------------
(* The server is asked, once or twice.                                     *)

NoSql(c) == NextSql(c) = "Sql" /\ Has("dummy") /\ ~Has("special")

DoNotQuery(c) ==
  /\ at[c] = "query"
  /\ NoSql(c) \/ Unwanted(c)
  /\ EndFetch(c, "nothing", "none", 0)
  /\ UNCHANGED <<flags, accepts, instanceCacheVars, unreachableDB>>

\* The retry is decided on what this call asked and got, which is here instead of
\* the flag retryWithSuperuserSQL and of firstErr.
Query(c) ==
  /\ at[c] = "query"
  /\ ~NoSql(c) /\ ~Unwanted(c) /\ ~Has("special")
  /\ asked' = [asked EXCEPT ![c] = Append(@, NextSql(c))]
  /\ UNCHANGED <<flags, accepts, instanceCacheVars, unreachableDB, vme>>

QuerySucceeds(c) ==
  /\ Query(c)
  /\ DbOf[c] \in accepts
  /\ Goto(c, "answered", 0)
  /\ UNCHANGED errors

QueryFails(c) ==
  /\ Query(c)
  /\ \E e \in IF DbOf[c] \in accepts THEN Errors \ {"refused"} ELSE {"refused"} :
       errors' = [errors EXCEPT ![c] = Append(@, e)]
  /\ Goto(c, "failed", 0)

GetElsewhere(c) ==
  /\ at[c] = "query"
  /\ Has("special") /\ ~Unwanted(c)
  /\ Goto(c, "put", 0)
  /\ UNCHANGED <<flags, accepts, instanceCacheVars, unreachableDB, localVars>>

LastError(c) == errors[c][Len(errors[c])]

\* "recovery is in progress" of a server that is known to be in recovery ends the
\* call; the row that says "down" is made up if the metric is instance_up; otherwise
\* a refused connection is noted and the SQL for superusers tried, if it was not.
\* In the end it is the first error that is returned.
MayTryAgain(c) ==
  /\ Has("SqlSU")
  /\ asked[c] = <<"Sql">>

FailInRecovery(c) ==
  /\ LastError(c) = "recovery"
  /\ EndFetch(c, "error", LastError(c), 0)
  /\ UNCHANGED unreachableDB

ReportDown(c) ==
  /\ Has("instance_up")
  /\ EndFetch(c, "down", "none", 0)
  /\ UNCHANGED unreachableDB

FailOrTryAgain(c) ==
  /\ ~Has("instance_up")
  /\ unreachableDB' =
       IF LastError(c) = "refused" THEN unreachableDB \cup {DbOf[c]} ELSE unreachableDB
  /\ IF MayTryAgain(c)
       THEN Goto(c, "query", waited[c]) /\ UNCHANGED localVars
       ELSE EndFetch(c, "error", errors[c][1], 0)

Fail(c) ==
  /\ at[c] = "failed"
  /\ FailInRecovery(c) \/ ReportDown(c) \/ FailOrTryAgain(c)
  /\ UNCHANGED <<flags, accepts, instanceCacheVars>>

\* A mutant of Succeed: the mark is left.
SucceedQuietly(c) ==
  /\ at[c] = "answered"
  /\ Goto(c, "put", waited[c])
  /\ UNCHANGED <<flags, accepts, instanceCacheVars, unreachableDB, localVars>>

\* The rows are thrown away if the database was removed in the meantime.
Succeed(c) ==
  /\ at[c] = "answered"
  /\ unreachableDB' = unreachableDB \ {DbOf[c]}
  /\ Goto(c, "put", waited[c])
  /\ UNCHANGED <<flags, accepts, instanceCacheVars, localVars>>

RemovedMeanwhile(c) ==
  /\ at[c] = "answered"
  /\ EndFetch(c, "error", "removed", 0)
  /\ UNCHANGED <<flags, accepts, instanceCacheVars, unreachableDB>>

-----------------------------------------------------------------------------
(* PutToInstanceCache: the rows, if there are any, then the stamp.         *)

PutNothing(c) ==
  /\ at[c] = "put"
  /\ EndFetch(c, "rows", "none", waited[c])
  /\ UNCHANGED <<flags, accepts, instanceCacheVars, unreachableDB>>

PutRows(c) ==
  /\ at[c] = "put"
  /\ Has("Cacheable")
  /\ instanceMetricCache' = waited[c]
  /\ Goto(c, "stamp", waited[c])
  /\ UNCHANGED <<flags, accepts, instanceMetricCacheTimestamp, unreachableDB, localVars>>

PutStamp(c) ==
  /\ at[c] = "stamp"
  /\ instanceMetricCacheTimestamp' = 0
  /\ EndFetch(c, "rows", "none", waited[c])
  /\ UNCHANGED <<flags, accepts, instanceMetricCache, unreachableDB>>

FetchMetrics(c) ==
  \/ BeginFetch(c) \/ BeginFetchFails(c)
  \/ LookAtStamp(c) \/ CopyRows(c)
  \/ DoNotQuery(c) \/ QuerySucceeds(c) \/ QueryFails(c) \/ GetElsewhere(c) \/ Fail(c)
  \/ Succeed(c) \/ RemovedMeanwhile(c)
  \/ PutNothing(c) \/ PutRows(c) \/ PutStamp(c)

-----------------------------------------------------------------------------
(* The databases and the clock.                                            *)

RefusesOrAccepts ==
  /\ \E d \in Dbs : accepts' = (accepts \ {d}) \cup ({d} \ accepts)
  /\ result' = NoResult
  /\ UNCHANGED <<flags, instanceCacheVars, unreachableDB, at, waited, localVars>>

\* Time passes; statement timeouts bound how long a call waits.
TimePasses ==
  /\ \A c \in Gatherers : at[c] # "idle" => waited[c] < MaxWait
  /\ waited' = [c \in Gatherers |-> IF at[c] = "idle" THEN 0 ELSE waited[c] + 1]
  /\ instanceMetricCache' = Older(instanceMetricCache)
  /\ instanceMetricCacheTimestamp' = Older(instanceMetricCacheTimestamp)
  /\ result' = NoResult
  /\ UNCHANGED <<flags, accepts, unreachableDB, at, localVars>>

FetchNext ==
  \/ \E c \in Gatherers : FetchMetrics(c)
  \/ RefusesOrAccepts \/ TimePasses

FetchSpec == FetchInit /\ [][FetchNext]_fetchVars

\* Gatherers go on, and what is tried over and over again works some time.
FetchFairness ==
  \A c \in Gatherers :
    /\ WF_fetchVars(FetchMetrics(c))
    /\ SF_fetchVars(BeginFetch(c)) /\ SF_fetchVars(QuerySucceeds(c)) /\ SF_fetchVars(Succeed(c))
-----------------------------------------------------------------------------
(* Properties.                                                             *)

\* Types; a call asks at most twice, never twice the same, and in the order of rights.
FetchTypeOK ==
  /\ metric \in Metrics
  /\ noHelperFunctions \in BOOLEAN
  /\ accepts \subseteq Dbs
  /\ instanceMetricCache \in Ages /\ instanceMetricCacheTimestamp \in Ages
  /\ unreachableDB \subseteq Dbs
  /\ at \in [Gatherers -> FetchPlaces]
  /\ vme \in [Gatherers -> Known]
  /\ waited \in [Gatherers -> 0 .. MaxWait]
  /\ asked \in [Gatherers -> {<<>>, <<"Sql">>, <<"SqlSU">>, <<"Sql", "SqlSU">>}]
  /\ errors \in [Gatherers -> Seq(Errors)]
  /\ result \in Results
  /\ \A c \in Gatherers : Len(errors[c]) <= Len(asked[c])

\* The rows that a gatherer gets from the cache are not much older than the cache may
\* be, although the stamp that was looked at may belong to other rows than those that
\* are copied: a call may wait between the two, and a slow one may write over newer
\* rows.  It costs at most three times what a call may wait.
CachedNotTooOld == result.kind = "cached" => result.age <= MaxAge + 3 * MaxWait

\* A database is counted as unreachable only for a while after it accepts connections
\* again: a refusal that is noted after a later success does not stay.
\* (A metric of masters or standbys only may not be asked for any more, nor one that
\* is had from the cache.)
UnreachableConverges ==
  metric \cap {"MasterOnly", "StandbyOnly", "Cacheable"} = {} =>
    (<>[](accepts = Dbs) => <>[](unreachableDB = {}))
=============================================================================
