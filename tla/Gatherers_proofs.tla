-------------------------- MODULE Gatherers_proofs ---------------------------
(***************************************************************************)
(* Proofs about what gatherers use: the version cache, FetchMetrics with   *)
(* its cache of rows, disabled days and times, for any number of calls and *)
(* any settings; and about all parts of the gatherers together.            *)
(***************************************************************************)
EXTENDS MCGatherers, ChangeDetection_proofs, LogParser_proofs, SequenceTheorems, TLAPS

-----------------------------------------------------------------------------
(* DBGetPGVersion.                                                         *)

\* Calls that have the server's version, and only they, have read something.
Asked(c) == call[c] \notin {"idle", "main"}

\* A call stores only what begins with a version.
HasVersion ==
  \A c \in Callers : IF Asked(c) THEN verNew[c]["ver"] # 0 ELSE verNew[c] = NoInfo

\* What a call has read is not older than the call.
ReadsSince ==
  \A c \in Callers, f \in Fields \ Carried : verNew[c][f] # 0 => verNew[c][f] >= since[c]

\* A scrape has noticed that the server was up.
NoticesUp ==
  \A c \in Reporting : Asked(c) \/ (call[c] = "main" /\ reachable) => wasUp[c]

VInv == VersionTypeOK /\ HasVersion /\ ReadsSince /\ NotOlderThanItsCall /\ NoticesUp

\* The names of the queries are no other places of a call.
LEMMA PlacesDiffer ==
  /\ OptionalFields \subseteq
       {"system_identifier", "exec_env", "approx_size", "superuser", "extensions"}
  /\ OptionalFields \cap {"idle", "main", "store", "ver"} = {}
  /\ \A i \in DOMAIN Optional : Optional[i] \in OptionalFields
  /\ 1 \in DOMAIN Optional
  /\ Reporting \subseteq Callers /\ Reporting \subseteq NoCache
  /\ Carried \subseteq Fields /\ "ver" \in Fields /\ "ver" \notin Carried
<1> USE VersionAssumption
<1> DEFINE Names == {"system_identifier", "exec_env", "approx_size", "superuser", "extensions"}
<1>1. \A i \in DOMAIN Optional : Optional[i] \in Names
  BY DEF VersionAssumption
<1>2. OptionalFields \subseteq Names
  BY <1>1 DEF OptionalFields
<1>3. 1 \in DOMAIN Optional
  BY DEF VersionAssumption
<1>4. QED
  BY <1>2, <1>3 DEF VersionAssumption, OptionalFields, Reporting, Carried, Fields

\* The invariant holds at the beginning.
LEMMA VersionInitInv == VersionInit => VInv
<1> SUFFICES ASSUME VersionInit PROVE VInv
  OBVIOUS
<1> USE PlacesDiffer, VersionAssumption DEF VersionInit, VersionAssumption
<1>1. NoInfo \in [Fields -> 0 .. 1] /\ NothingRead \in [Carried -> 0 .. 1]
  BY DEF NoInfo, NothingRead
<1>2. VersionTypeOK
  <2>1. CallTypeOK
    BY <1>1 DEF CallTypeOK, Places
  <2>2. dbType \in {"postgres", "pooler"} /\ generation \in 1 .. MaxGeneration
    OBVIOUS
  <2>3. entry \in [Fields -> 0 .. generation] /\ entrySince \in 0 .. generation /\ ~fresh
    BY <1>1
  <2>4. QED
    BY <2>1, <2>2, <2>3, ZenonT(30) DEF VersionTypeOK
<1>3. HasVersion /\ ReadsSince /\ NotOlderThanItsCall /\ NoticesUp
  BY DEF HasVersion, ReadsSince, NotOlderThanItsCall, NoticesUp, Asked, NoInfo
<1>4. QED
  BY <1>2, <1>3 DEF VInv

\* What a query that is not the first one finds is a generation, and if its field is
\* not carried over, the present one or nothing.
LEMMA AnswerType ==
  ASSUME VersionTypeOK, NEW c \in Callers, NEW f \in OptionalFields
  PROVE  /\ Answer(c, f) \in 0 .. generation
         /\ f \notin Carried => Answer(c, f) \in {0, generation}
<1>1. f \in Carried => ver[c][f] \in 0 .. generation
  BY DEF VersionTypeOK, CallTypeOK
<1>2. generation \in Nat /\ generation >= 1
  BY VersionAssumption DEF VersionTypeOK, VersionAssumption
<1>3. QED
  BY <1>1, <1>2 DEF Answer, NotAsked, Carried

\* The end of a call, whatever it leaves in the map.
LEMMA ReturnInv ==
  ASSUME VInv, NEW c \in Callers, Return(c), UNCHANGED theServer,
         entry' \in [Fields -> 0 .. generation], fresh' \in BOOLEAN,
         entrySince' \in 0 .. generation, fresh' => entry'["ver"] # 0,
         \A f \in Fields \ Carried : entry'[f] # 0 => entry'[f] >= entrySince'
  PROVE  VInv'
<1> USE PlacesDiffer DEF VInv, VersionTypeOK, CallTypeOK, Return, theServer
<1>1. NoInfo \in [Fields -> 0 .. generation] /\ NothingRead \in [Carried -> 0 .. generation]
  BY VersionAssumption DEF NoInfo, NothingRead, VersionAssumption
<1>2. VersionTypeOK'
  BY <1>1 DEF Places
<1>3. HasVersion'
  BY DEF HasVersion, Asked
<1>4. ReadsSince'
  BY DEF ReadsSince, NoInfo
<1>5. NotOlderThanItsCall' /\ NoticesUp'
  BY DEF NotOlderThanItsCall, NoticesUp, Asked
<1>6. QED
  BY <1>2, <1>3, <1>4, <1>5 DEF VInv

\* Every step of a call preserves it.
LEMMA CallInv ==
  ASSUME VInv, NEW c \in Callers, DBGetPGVersion(c)
  PROVE  VInv'
<1> USE PlacesDiffer, VersionAssumption
<1>t. /\ generation \in Nat /\ generation >= 1
      /\ VersionTypeOK
  BY DEF VInv, VersionTypeOK, VersionAssumption
<1>1. CASE CallHits(c)
  BY <1>1 DEF VInv, CallHits, versionVars, theServer, cacheVars, VersionTypeOK, CallTypeOK,
     HasVersion, ReadsSince, NotOlderThanItsCall, NoticesUp, Asked
<1>2. CASE CallMisses(c)
  <2> USE <1>2 DEF CallMisses, theServer, cacheVars
  <2>1. VersionTypeOK'
    <3>1. [f \in Carried |-> entry[f]] \in [Carried -> 0 .. generation]
      BY <1>t DEF VersionTypeOK
    <3>2. generation \in 0 .. generation
      BY <1>t
    <3>3. ver' \in [Callers -> [Carried -> 0 .. generation]]
      BY <1>t, <3>1 DEF VersionTypeOK, CallTypeOK
    <3>4. since' \in [Callers -> 0 .. generation]
      BY <1>t, <3>2 DEF VersionTypeOK, CallTypeOK
    <3>5. call' \in [Callers -> Places] /\ wasUp' \in [Reporting -> BOOLEAN]
      BY <1>t DEF VersionTypeOK, CallTypeOK, Places
    <3>6. QED
      BY <1>t, <3>3, <3>4, <3>5 DEF VersionTypeOK, CallTypeOK
  <2>2. HasVersion' /\ NoticesUp'
    BY <1>t DEF VInv, HasVersion, NoticesUp, Asked, VersionTypeOK, CallTypeOK
  <2>3. ReadsSince'
    BY <1>t DEF VInv, HasVersion, ReadsSince, Asked, NoInfo, VersionTypeOK, CallTypeOK
  <2>4. QED
    BY <2>1, <2>2, <2>3 DEF VInv, NotOlderThanItsCall
<1>3. CASE MainQuery(c)
  <2> USE <1>3 DEF MainQuery, theServer, cacheVars
  <2>1. VersionTypeOK'
    <3>1. [verNew[c] EXCEPT !["ver"] = generation] \in [Fields -> 0 .. generation]
      BY <1>t DEF VersionTypeOK, CallTypeOK
    <3>2. verNew' \in [Callers -> [Fields -> 0 .. generation]]
      BY <1>t, <3>1 DEF VersionTypeOK, CallTypeOK
    <3>3. call' \in [Callers -> Places]
      BY <1>t DEF VersionTypeOK, CallTypeOK, Places
    <3>4. QED
      BY <1>t, <3>2, <3>3 DEF VersionTypeOK, CallTypeOK
  <2>2. HasVersion' /\ NoticesUp'
    BY <1>t DEF VInv, HasVersion, NoticesUp, Asked, VersionTypeOK, CallTypeOK
  <2>3. ReadsSince'
    BY <1>t DEF VInv, ReadsSince, VersionTypeOK, CallTypeOK
  <2>4. QED
    BY <2>1, <2>2, <2>3 DEF VInv, NotOlderThanItsCall
<1>4. CASE MainQueryFails(c)
  BY <1>4, <1>t, ReturnInv DEF MainQueryFails, theServer, cacheVars, VInv, VersionTypeOK,
     NotOlderThanItsCall
<1>5. CASE OptionalQuery(c)
  <2>1. PICK i \in DOMAIN Optional :
          /\ call[c] = Optional[i]
          /\ verNew' = [verNew EXCEPT ![c][Optional[i]] = Answer(c, Optional[i])]
          /\ call' = [call EXCEPT ![c] =
                        IF i + 1 \in DOMAIN Optional THEN Optional[i + 1] ELSE "store"]
          /\ UNCHANGED <<theServer, cacheVars, ver, since, wasUp>>
    BY <1>5 DEF OptionalQuery
  <2> DEFINE f == Optional[i]
             a == Answer(c, f)
  <2>2. /\ f \in OptionalFields /\ f \in Fields /\ f # "ver"
        /\ a \in 0 .. generation
        /\ f \notin Carried => a \in {0, generation}
    BY <1>t, AnswerType DEF Fields
  <2> HIDE DEF f, a
  <2>3. verNew' = [verNew EXCEPT ![c][f] = a] /\ call[c] = f
    BY <2>1 DEF f, a
  <2>4. call' = [call EXCEPT ![c] = call'[c]] /\ call'[c] \in OptionalFields \cup {"store"}
    BY <1>t, <2>1 DEF VersionTypeOK, CallTypeOK
  <2>5. VersionTypeOK'
    <3>1. [verNew[c] EXCEPT ![f] = a] \in [Fields -> 0 .. generation]
      BY <1>t, <2>2 DEF VersionTypeOK, CallTypeOK
    <3>2. verNew' \in [Callers -> [Fields -> 0 .. generation]]
      BY <1>t, <2>3, <3>1 DEF VersionTypeOK, CallTypeOK
    <3>3. call' \in [Callers -> Places]
      BY <1>t, <2>4 DEF VersionTypeOK, CallTypeOK, Places
    <3>4. QED
      BY <1>t, <2>1, <3>2, <3>3 DEF VersionTypeOK, CallTypeOK, theServer, cacheVars
  <2>6. HasVersion'
    <3>1. Asked(c) /\ verNew[c]["ver"] # 0
      BY <2>2, <2>3 DEF VInv, HasVersion, Asked
    <3>2. ASSUME NEW d \in Callers PROVE HasVersion!(d)'
      <4>1. CASE d = c
        BY <4>1, <3>1, <2>2, <2>3, <2>4, <1>t DEF Asked, VersionTypeOK, CallTypeOK
      <4>2. CASE d # c
        BY <4>2, <2>3, <2>4, <1>t DEF VInv, HasVersion, Asked, VersionTypeOK, CallTypeOK
      <4>3. QED
        BY <4>1, <4>2
    <3>3. QED
      BY <3>2 DEF HasVersion
  <2>7. NoticesUp'
    <3>1. Asked(c)
      BY <2>2, <2>3 DEF Asked
    <3>2. QED
      BY <3>1, <2>1, <2>4, <1>t DEF VInv, NoticesUp, Asked, VersionTypeOK, CallTypeOK, theServer
  <2>8. ReadsSince'
    <3> SUFFICES ASSUME NEW d \in Callers, NEW g \in Fields \ Carried, verNew'[d][g] # 0
                 PROVE  verNew'[d][g] >= since'[d]
      BY DEF ReadsSince
    <3>1. since' = since /\ since[d] \in 0 .. generation
      BY <2>1, <1>t DEF VersionTypeOK, CallTypeOK
    <3>2. CASE d = c /\ g = f
      BY <3>1, <3>2, <2>2, <2>3, <1>t DEF VersionTypeOK, CallTypeOK
    <3>3. CASE ~(d = c /\ g = f)
      BY <3>1, <3>3, <2>3, <1>t DEF VInv, ReadsSince, VersionTypeOK, CallTypeOK
    <3>4. QED
      BY <3>2, <3>3
  <2>9. NotOlderThanItsCall'
    BY <2>1 DEF VInv, NotOlderThanItsCall, cacheVars
  <2>10. QED
    BY <2>5, <2>6, <2>7, <2>8, <2>9 DEF VInv
<1>6. CASE Store(c)
  <2>1. Asked(c)
    BY <1>6 DEF Store, Asked
  <2>2. /\ verNew[c] \in [Fields -> 0 .. generation] /\ verNew[c]["ver"] # 0
        /\ since[c] \in 0 .. generation
    BY <1>t, <2>1 DEF VInv, HasVersion, VersionTypeOK, CallTypeOK
  <2>3. \A f \in Fields \ Carried : verNew[c][f] # 0 => verNew[c][f] >= since[c]
    BY DEF VInv, ReadsSince
  <2>4. QED
    BY <1>6, <2>2, <2>3, ReturnInv DEF Store
<1>7. QED
  BY <1>1, <1>2, <1>3, <1>4, <1>5, <1>6 DEF DBGetPGVersion

\* Every step preserves it.
LEMMA VersionNextInv == VInv /\ [VersionNext]_versionVars => VInv'
<1> SUFFICES ASSUME VInv, [VersionNext]_versionVars PROVE VInv'
  OBVIOUS
<1> USE PlacesDiffer, VersionAssumption DEF VersionAssumption
<1>1. CASE \E c \in Callers : DBGetPGVersion(c)
  BY <1>1, CallInv
<1>2. CASE ServerChanges
  <2> USE <1>2 DEF ServerChanges, cacheVars
  <2>1. /\ generation \in Nat /\ generation' = generation + 1 /\ generation' \in 1 .. MaxGeneration
        /\ \A n \in 0 .. generation : n \in 0 .. generation'
    BY DEF VInv, VersionTypeOK
  <2>2. VersionTypeOK'
    <3>1. entry' \in [Fields -> 0 .. generation']
      BY <2>1 DEF VInv, VersionTypeOK
    <3>2. ver' \in [Callers -> [Carried -> 0 .. generation']]
      BY <2>1 DEF VInv, VersionTypeOK, CallTypeOK
    <3>3. verNew' \in [Callers -> [Fields -> 0 .. generation']]
      BY <2>1 DEF VInv, VersionTypeOK, CallTypeOK
    <3>4. since' \in [Callers -> 0 .. generation'] /\ entrySince' \in 0 .. generation'
      BY <2>1 DEF VInv, VersionTypeOK, CallTypeOK
    <3>5. QED
      BY <2>1, <3>1, <3>2, <3>3, <3>4 DEF VInv, VersionTypeOK, CallTypeOK
  <2>3. HasVersion' /\ ReadsSince' /\ NotOlderThanItsCall' /\ NoticesUp'
    BY DEF VInv, HasVersion, ReadsSince, NotOlderThanItsCall, NoticesUp, Asked
  <2>4. QED
    BY <2>2, <2>3 DEF VInv
<1>3. CASE ServerStopsOrStarts
  <2> USE <1>3 DEF ServerStopsOrStarts, cacheVars
  <2>1. VersionTypeOK'
    BY DEF VInv, VersionTypeOK, CallTypeOK
  <2>2. HasVersion' /\ ReadsSince' /\ NotOlderThanItsCall'
    BY DEF VInv, HasVersion, ReadsSince, NotOlderThanItsCall, Asked
  <2>3. NoticesUp'
    BY DEF VInv, VersionTypeOK, CallTypeOK, NoticesUp, Asked
  <2>4. QED
    BY <2>1, <2>2, <2>3 DEF VInv
<1>4. CASE TwoMinutesPass
  BY <1>4 DEF TwoMinutesPass, theServer, VInv, VersionTypeOK, CallTypeOK, HasVersion, ReadsSince,
     NotOlderThanItsCall, NoticesUp, Asked
<1>5. CASE UNCHANGED versionVars
  BY <1>5 DEF versionVars, theServer, cacheVars, VInv, VersionTypeOK, CallTypeOK, HasVersion,
     ReadsSince, NotOlderThanItsCall, NoticesUp, Asked
<1>6. QED
  BY <1>1, <1>2, <1>3, <1>4, <1>5 DEF VersionNext

\* The invariant of DBGetPGVersion.
THEOREM VersionInvariance == VersionSpec => []VInv
<1>1. QED
  BY VersionInitInv, VersionNextInv, PTL DEF VersionSpec

\* No fetch stores an entry that has no version, or that runs ahead of the server.
THEOREM VersionTypesOK == VersionSpec => []VersionTypeOK
<1>1. VInv => VersionTypeOK
  BY DEF VInv
<1>2. QED
  BY <1>1, VersionInvariance, PTL

\* Of any number of overlapping calls of DBGetPGVersion none stores what is older than
\* the call, save for the two fields that it carries over.
THEOREM EntryNotOlderThanItsCall == VersionSpec => []NotOlderThanItsCall
<1>1. VInv => NotOlderThanItsCall
  BY DEF VInv
<1>2. QED
  BY <1>1, VersionInvariance, PTL

\* A synchronous scrape says that an instance is up only if it was while it looked.
THEOREM UpOnlyIfReached == VersionSpec => UpWasReached
<1>1. VInv /\ [VersionNext]_versionVars =>
        [\A c \in Reporting : SaysUp(c) => wasUp[c]]_versionVars
  <2> SUFFICES ASSUME VInv, NEW c \in Reporting, SaysUp(c)
               PROVE  wasUp[c]
    OBVIOUS
  <2>1. c \in NoCache
    BY PlacesDiffer
  <2>2. Store(c)
    BY <2>1 DEF SaysUp, HidesError
  <2>3. Asked(c)
    BY <2>2 DEF Store, Asked
  <2>4. QED
    BY <2>3 DEF VInv, NoticesUp
<1>2. QED
  BY <1>1, VersionInvariance, PTL DEF VersionSpec, UpWasReached

-----------------------------------------------------------------------------
(* FetchMetrics.                                                           *)

\* How far a call that is at p has come if s is what it asked and e the errors it got:
\* one that asks for the second time has asked with the SQL for everybody, and there is
\* one for superusers.
Asking(p, s, e) ==
  /\ Len(e) <= Len(s)
  /\ p \in {"idle", "look", "copy"} => s = <<>> /\ e = <<>>
  /\ p \in {"query", "failed"} => Len(e) = Len(s)
  /\ p = "query" => s = <<>> \/ (s = <<"Sql">> /\ Has("SqlSU"))
  /\ p = "failed" => e # <<>>
Progress == \A c \in Gatherers : Asking(at[c], asked[c], errors[c])

\* The rows' age when a call that is at p, n ticks after it asked, sets the stamp, and
\* the stamp's when it copies the rows.
Aging(p, n) ==
  /\ p = "stamp" => instanceMetricCache <= MaxWait + n
  /\ p = "copy" => instanceMetricCacheTimestamp <= MaxAge + n

\* The rows are older than the stamp by at most two waits: that of the call that got
\* them and, if it wrote over newer ones, that of the call that set the stamp.
RowsAndStamp ==
  /\ instanceMetricCacheTimestamp # Never =>
       /\ instanceMetricCache # Never
       /\ instanceMetricCache <= instanceMetricCacheTimestamp + 2 * MaxWait
  /\ \A c \in Gatherers : Aging(at[c], waited[c])

FInv == FetchTypeOK /\ Progress /\ RowsAndStamp /\ CachedNotTooOld

\* The SQL that a call may have sent.
Questions == {<<>>, <<"Sql">>, <<"SqlSU">>, <<"Sql", "SqlSU">>}

\* The bounds are numbers, and ages beyond them are told apart from no age.
LEMMA AgesAre ==
  /\ MaxAge \in Nat /\ MaxWait \in Nat /\ MaxWait > 0
  /\ Oldest = MaxAge + 3 * MaxWait + 1 /\ Never = Oldest + 1
  /\ 0 \in Ages /\ Never \in Ages /\ \A n \in 0 .. MaxWait : n \in Ages
  /\ \A age \in Ages : age \in Nat /\ Older(age) \in Ages
  /\ \A age \in Ages : Older(age) = Never <=> age = Never
  /\ \A age \in Ages : Older(age) <= age + 1 /\ (age < Oldest => Older(age) = age + 1)
  BY FetchAssumption DEF FetchAssumption, Oldest, Never, Ages, Older

\* What a call may return.
LEMMA ResultsAre ==
  /\ NoResult \in Results
  /\ \A e \in Errors \cup {"version", "sql", "removed"} :
       [kind |-> "error", error |-> e, age |-> 0] \in Results
  /\ \A k \in {"nothing", "down"} : [kind |-> k, error |-> "none", age |-> 0] \in Results
  /\ \A k \in {"rows", "cached"}, n \in Ages :
       [kind |-> k, error |-> "none", age |-> n] \in Results
  BY AgesAre DEF Results, NoResult

\* A sequence of two.
LEMMA AppendToOne == ASSUME NEW x, NEW y PROVE Append(<<x>>, y) = <<x, y>>
<1> DEFINE s == Append(<<x>>, y)
           t == <<x, y>>
<1>1. s \in Seq({x, y}) /\ t \in Seq({x, y})
  OBVIOUS
<1>2. Len(s) = 2 /\ Len(t) = 2
  OBVIOUS
<1>3. s[1] = t[1] /\ s[2] = t[2]
  OBVIOUS
<1> HIDE DEF s, t
<1>4. ASSUME NEW i \in 1 .. Len(s) PROVE s[i] = t[i]
  <2>1. i = 1 \/ i = 2
    BY <1>2
  <2>2. QED
    BY <1>3, <2>1
<1>5. s = t
  BY <1>1, <1>2, <1>4, SeqEqual
<1>6. QED
  BY <1>5 DEF s, t

\* One call has moved on; the questions of the others are as they were.
LEMMA ProgressKept ==
  ASSUME FetchTypeOK, Progress, NEW c \in Gatherers, NEW place,
         at' = [at EXCEPT ![c] = place], metric' = metric,
         \A d \in Gatherers \ {c} : asked'[d] = asked[d] /\ errors'[d] = errors[d],
         Asking(place, asked'[c], errors'[c])
  PROVE  Progress'
<1>1. ASSUME NEW d \in Gatherers PROVE Asking(at[d], asked[d], errors[d])'
  <2>1. CASE d = c
    <3>1. at'[c] = place
      BY DEF FetchTypeOK
    <3>2. QED
      BY <2>1, <3>1 DEF Asking, Has
  <2>2. CASE d # c
    <3>1. at'[d] = at[d] /\ asked'[d] = asked[d] /\ errors'[d] = errors[d]
      BY <2>2 DEF FetchTypeOK
    <3>2. Asking(at[d], asked[d], errors[d])
      BY DEF Progress
    <3>3. QED
      BY <3>1, <3>2 DEF Asking, Has
  <2>3. QED
    BY <2>1, <2>2
<1>2. QED
  BY <1>1 DEF Progress

\* One call has moved on, maybe with new rows, but without a new stamp.
LEMMA RowsAndStampKept ==
  ASSUME FetchTypeOK, RowsAndStamp, NEW c \in Gatherers, NEW place, NEW n \in 0 .. MaxWait,
         at' = [at EXCEPT ![c] = place], waited' = [waited EXCEPT ![c] = n],
         instanceMetricCache' \in {instanceMetricCache, n},
         UNCHANGED instanceMetricCacheTimestamp,
         place = "stamp" => instanceMetricCache' = n,
         place = "copy" => instanceMetricCacheTimestamp <= MaxAge + n
  PROVE  RowsAndStamp'
<1>1. /\ instanceMetricCache \in Nat /\ instanceMetricCacheTimestamp \in Nat
      /\ MaxWait \in Nat /\ MaxAge \in Nat /\ n \in Nat /\ n <= MaxWait /\ n # Never
      /\ \A d \in Gatherers : waited[d] \in Nat
  <2>1. MaxWait \in Nat /\ MaxAge \in Nat /\ MaxWait < Never
    BY AgesAre
  <2>2. instanceMetricCache \in Nat /\ instanceMetricCacheTimestamp \in Nat
    BY AgesAre DEF FetchTypeOK
  <2>3. n \in Nat /\ n <= MaxWait /\ n # Never
    BY <2>1, AgesAre
  <2>4. \A d \in Gatherers : waited[d] \in Nat
    BY <2>1 DEF FetchTypeOK
  <2>5. QED
    BY <2>1, <2>2, <2>3, <2>4
<1>2. instanceMetricCacheTimestamp' # Never =>
        /\ instanceMetricCache' # Never
        /\ instanceMetricCache' <= instanceMetricCacheTimestamp' + 2 * MaxWait
  BY <1>1 DEF RowsAndStamp
<1>3. ASSUME NEW d \in Gatherers PROVE Aging(at[d], waited[d])'
  <2>1. CASE d = c
    <3>1. at'[c] = place /\ waited'[c] = n
      BY DEF FetchTypeOK
    <3>2. QED
      BY <1>1, <2>1, <3>1 DEF Aging
  <2>2. CASE d # c
    <3>1. at'[d] = at[d] /\ waited'[d] = waited[d]
      BY <2>2 DEF FetchTypeOK
    <3>2. Aging(at[d], waited[d])
      BY DEF RowsAndStamp
    <3>3. QED
      BY <1>1, <3>1, <3>2 DEF Aging
  <2>3. QED
    BY <2>1, <2>2
<1>4. QED
  BY <1>2, <1>3 DEF RowsAndStamp
\* A call that goes on keeps what it has to know of its questions and of the cache.
LEMMA GotoInv ==
  ASSUME FInv, NEW c \in Gatherers, NEW place \in FetchPlaces, NEW n \in 0 .. MaxWait,
         Goto(c, place, n), UNCHANGED <<flags, accepts, instanceMetricCacheTimestamp>>,
         unreachableDB' \subseteq Dbs, vme' \in [Gatherers -> Known],
         instanceMetricCache' \in {instanceMetricCache, n},
         asked' \in [Gatherers -> Questions], errors' \in [Gatherers -> Seq(Errors)],
         \A d \in Gatherers \ {c} : asked'[d] = asked[d] /\ errors'[d] = errors[d],
         Asking(place, asked'[c], errors'[c]),
         place = "stamp" => instanceMetricCache' = n,
         place = "copy" => instanceMetricCacheTimestamp <= MaxAge + n
  PROVE  FInv'
<1> USE DEF FInv, Goto, flags
<1>1. Progress'
  BY ProgressKept
<1>2. RowsAndStamp'
  BY RowsAndStampKept
<1>3. CachedNotTooOld'
  BY DEF CachedNotTooOld, NoResult
<1>4. FetchTypeOK'
  <2>1. at' \in [Gatherers -> FetchPlaces] /\ waited' \in [Gatherers -> 0 .. MaxWait]
    BY DEF FetchTypeOK
  <2>2. \A d \in Gatherers : Len(errors'[d]) <= Len(asked'[d])
    BY <1>1 DEF Progress, Asking
  <2>3. result' \in Results /\ instanceMetricCache' \in Ages
    BY AgesAre, ResultsAre DEF FetchTypeOK
  <2>4. QED
    BY <2>1, <2>2, <2>3 DEF FetchTypeOK, Questions
<1>5. QED
  BY <1>1, <1>2, <1>3, <1>4

\* A call that returns leaves nothing behind, whatever it returns.
LEMMA EndFetchTypes ==
  ASSUME FetchTypeOK, Progress, NEW c \in Gatherers, NEW kind, NEW error, NEW age,
         EndFetch(c, kind, error, age), [kind |-> kind, error |-> error, age |-> age] \in Results,
         UNCHANGED <<flags, accepts, instanceMetricCache>>,
         instanceMetricCacheTimestamp' \in Ages, unreachableDB' \subseteq Dbs
  PROVE  FetchTypeOK' /\ Progress'
<1> USE DEF EndFetch, flags
<1>1. /\ <<>> \in Questions /\ <<>> \in Seq(Errors) /\ 0 \in 0 .. MaxWait
      /\ NothingKnown \in Known /\ "idle" \in FetchPlaces
  BY AgesAre DEF Questions, NothingKnown, Known, FetchPlaces
<1>2. /\ asked'[c] = <<>> /\ errors'[c] = <<>>
      /\ \A d \in Gatherers \ {c} : asked'[d] = asked[d] /\ errors'[d] = errors[d]
  BY DEF FetchTypeOK
<1>3. Progress'
  <2>1. Asking("idle", asked'[c], errors'[c])
    BY <1>2 DEF Asking
  <2>2. QED
    BY <1>2, <2>1, ProgressKept
<1>4. FetchTypeOK'
  <2>1. at' \in [Gatherers -> FetchPlaces] /\ waited' \in [Gatherers -> 0 .. MaxWait]
    BY <1>1 DEF FetchTypeOK
  <2>2. vme' \in [Gatherers -> Known]
    BY <1>1 DEF FetchTypeOK
  <2>3. asked' \in [Gatherers -> Questions] /\ errors' \in [Gatherers -> Seq(Errors)]
    BY <1>1 DEF FetchTypeOK, Questions
  <2>4. \A d \in Gatherers : Len(errors'[d]) <= Len(asked'[d])
    BY <1>3 DEF Progress, Asking
  <2>5. QED
    BY <2>1, <2>2, <2>3, <2>4 DEF FetchTypeOK, Questions
<1>5. QED
  BY <1>3, <1>4

\* The invariant does not care for what a call returns, unless it is from the cache.
LEMMA EndFetchInv ==
  ASSUME FInv, NEW c \in Gatherers, NEW kind, NEW error, NEW age,
         EndFetch(c, kind, error, age), [kind |-> kind, error |-> error, age |-> age] \in Results,
         kind = "cached" => age <= MaxAge + 3 * MaxWait,
         UNCHANGED <<flags, accepts, instanceCacheVars>>, unreachableDB' \subseteq Dbs
  PROVE  FInv'
<1> USE DEF FInv, instanceCacheVars
<1>1. FetchTypeOK' /\ Progress'
  <2>1. instanceMetricCacheTimestamp' \in Ages
    BY DEF FetchTypeOK
  <2>2. QED
    BY <2>1, EndFetchTypes
<1>2. RowsAndStamp'
  <2>1. 0 \in 0 .. MaxWait
    BY AgesAre
  <2>2. QED
    BY <2>1, RowsAndStampKept DEF EndFetch
<1>3. CachedNotTooOld'
  BY DEF CachedNotTooOld, EndFetch
<1>4. QED
  BY <1>1, <1>2, <1>3

\* The invariant holds at the beginning.
LEMMA FetchInitInv == FetchInit => FInv
<1> SUFFICES ASSUME FetchInit PROVE FInv
  OBVIOUS
<1> USE DEF FetchInit
<1>1. noHelperFunctions \in BOOLEAN
  BY Zenon
<1>2. NothingKnown \in Known /\ "idle" \in FetchPlaces /\ 0 \in 0 .. MaxWait
  BY AgesAre DEF NothingKnown, Known, FetchPlaces
<1>3. asked \in [Gatherers -> Questions] /\ errors \in [Gatherers -> Seq(Errors)]
  BY DEF Questions
<1>4. FetchTypeOK
  BY <1>1, <1>2, <1>3, AgesAre, ResultsAre DEF FetchTypeOK, Questions
<1>5. Progress /\ RowsAndStamp /\ CachedNotTooOld
  BY DEF Progress, Asking, RowsAndStamp, Aging, CachedNotTooOld, NoResult
<1>6. QED
  BY <1>4, <1>5 DEF FInv

-----------------------------------------------------------------------------
(* The steps of a call.                                                    *)

\* A call begins, or does not.
LEMMA BeginInv ==
  ASSUME FInv, NEW c \in Gatherers, BeginFetch(c) \/ BeginFetchFails(c)
  PROVE  FInv'
<1>1. CASE BeginFetch(c)
  <2>1. PICK place \in {"look", "query"} : Goto(c, place, 0)
    BY <1>1 DEF BeginFetch
  <2>2. vme' \in [Gatherers -> Known] /\ UNCHANGED <<asked, errors>>
    BY <1>1 DEF BeginFetch, FInv, FetchTypeOK
  <2>3. Asking(place, asked'[c], errors'[c])
    BY <1>1, <2>2 DEF BeginFetch, FInv, Progress, Asking
  <2>4. /\ asked' \in [Gatherers -> Questions] /\ errors' \in [Gatherers -> Seq(Errors)]
        /\ unreachableDB' \subseteq Dbs
    BY <1>1, <2>2 DEF BeginFetch, FInv, FetchTypeOK, Questions
  <2>5. /\ place \in FetchPlaces /\ place \notin {"stamp", "copy"} /\ 0 \in 0 .. MaxWait
    BY AgesAre DEF FetchPlaces
  <2>6. UNCHANGED <<flags, accepts, instanceMetricCacheTimestamp, instanceMetricCache>>
    BY <1>1 DEF BeginFetch, instanceCacheVars
  <2>7. QED
    BY <2>1, <2>2, <2>3, <2>4, <2>5, <2>6, GotoInv
<1>2. CASE BeginFetchFails(c)
  BY <1>2, ResultsAre, EndFetchInv DEF BeginFetchFails, FInv, FetchTypeOK
<1>3. QED
  BY <1>1, <1>2
\* A call goes on without asking, or gets its answer elsewhere.
LEMMA GoOnInv ==
  ASSUME FInv, NEW c \in Gatherers, NEW place \in FetchPlaces, NEW n \in {0, waited[c]},
         Goto(c, place, n),
         UNCHANGED <<flags, accepts, instanceCacheVars, localVars>>, unreachableDB' \subseteq Dbs,
         Asking(place, asked[c], errors[c]), place # "stamp",
         place = "copy" => instanceMetricCacheTimestamp <= MaxAge
  PROVE  FInv'
<1>1. /\ n \in 0 .. MaxWait /\ instanceMetricCacheTimestamp \in Nat
      /\ MaxAge \in Nat
  <2>1. waited[c] \in 0 .. MaxWait /\ 0 \in 0 .. MaxWait
    BY AgesAre DEF FInv, FetchTypeOK
  <2>2. instanceMetricCacheTimestamp \in Nat /\ MaxAge \in Nat
    BY AgesAre DEF FInv, FetchTypeOK
  <2>3. QED
    BY <2>1, <2>2
<1>2. place = "copy" => instanceMetricCacheTimestamp <= MaxAge + n
  BY <1>1
<1>3. /\ vme' \in [Gatherers -> Known]
      /\ asked' \in [Gatherers -> Questions] /\ errors' \in [Gatherers -> Seq(Errors)]
  BY DEF FInv, FetchTypeOK, Questions, localVars
<1>4. Asking(place, asked'[c], errors'[c])
  BY DEF localVars
<1>5. QED
  BY <1>1, <1>2, <1>3, <1>4, GotoInv DEF instanceCacheVars, localVars

\* The stamp, then the rows.
LEMMA LookInCacheInv ==
  ASSUME FInv, NEW c \in Gatherers, LookAtStamp(c) \/ CopyRows(c)
  PROVE  FInv'
<1>1. ASSUME at[c] \in {"look", "copy"}
      PROVE  Asking("query", asked[c], errors[c]) /\ Asking("copy", asked[c], errors[c])
  BY <1>1 DEF FInv, Progress, Asking
<1>2. unreachableDB \subseteq Dbs /\ "query" \in FetchPlaces /\ "copy" \in FetchPlaces
  BY DEF FInv, FetchTypeOK, FetchPlaces
<1>3. CASE LookAtStamp(c)
  <2>1. CASE instanceMetricCacheTimestamp <= MaxAge
    <3>1. Goto(c, "copy", waited[c])
      BY <1>3, <2>1 DEF LookAtStamp
    <3>2. QED
      BY <1>1, <1>2, <1>3, <2>1, <3>1, GoOnInv DEF LookAtStamp
  <2>2. CASE ~(instanceMetricCacheTimestamp <= MaxAge)
    <3>1. Goto(c, "query", waited[c])
      BY <1>3, <2>2 DEF LookAtStamp
    <3>2. QED
      BY <1>1, <1>2, <1>3, <3>1, GoOnInv DEF LookAtStamp
  <2>3. QED
    BY <2>1, <2>2
<1>4. CASE CopyRows(c)
  <2>1. CASE instanceMetricCache = Never
    BY <1>1, <1>2, <1>4, <2>1, GoOnInv DEF CopyRows
  <2>2. CASE EndFetch(c, "cached", "none", instanceMetricCache)
    <3>1. /\ instanceMetricCache \in Ages /\ instanceMetricCache \in Nat
          /\ instanceMetricCacheTimestamp \in Nat /\ MaxAge \in Nat /\ MaxWait \in Nat
          /\ waited[c] \in Nat /\ waited[c] <= MaxWait /\ Never = MaxAge + 3 * MaxWait + 2
      BY AgesAre DEF FInv, FetchTypeOK
    <3>2. instanceMetricCacheTimestamp <= MaxAge + waited[c]
      BY <1>4 DEF CopyRows, FInv, RowsAndStamp, Aging
    <3>3. instanceMetricCacheTimestamp # Never
      BY <3>1, <3>2
    <3>4. instanceMetricCache <= instanceMetricCacheTimestamp + 2 * MaxWait
      BY <3>3 DEF FInv, RowsAndStamp
    <3>5. instanceMetricCache <= MaxAge + 3 * MaxWait
      BY <3>1, <3>2, <3>4
    <3>6. QED
      BY <1>2, <1>4, <2>2, <3>1, <3>5, ResultsAre, EndFetchInv DEF CopyRows
  <2>3. CASE EndFetch(c, "error", "removed", 0)
    BY <1>2, <1>4, <2>3, ResultsAre, EndFetchInv DEF CopyRows
  <2>4. QED
    BY <1>4, <2>1, <2>2, <2>3 DEF CopyRows
<1>5. QED
  BY <1>3, <1>4

\* The server is asked.
LEMMA QueryInv ==
  ASSUME FInv, NEW c \in Gatherers,
         DoNotQuery(c) \/ QuerySucceeds(c) \/ QueryFails(c) \/ GetElsewhere(c)
  PROVE  FInv'
<1>1. unreachableDB \subseteq Dbs
  BY DEF FInv, FetchTypeOK
<1>2. CASE DoNotQuery(c)
  BY <1>1, <1>2, ResultsAre, EndFetchInv DEF DoNotQuery
<1>3. 0 \in 0 .. MaxWait
  BY AgesAre
<1>4. CASE GetElsewhere(c)
  <2>1. "put" \in FetchPlaces
    BY DEF FetchPlaces
  <2>2. Asking("put", asked[c], errors[c])
    BY <1>4 DEF FInv, Progress, Asking, GetElsewhere
  <2>3. /\ Goto(c, "put", 0)
        /\ UNCHANGED <<flags, accepts, instanceCacheVars, localVars, unreachableDB>>
    BY <1>4 DEF GetElsewhere
  <2>4. QED
    BY <1>1, <2>1, <2>2, <2>3, GoOnInv
<1>5. ASSUME Query(c), NEW place \in {"answered", "failed"}, Goto(c, place, 0),
             NEW e \in Seq(Errors), errors' = [errors EXCEPT ![c] = e],
             Len(e) <= Len(errors[c]) + 1,
             place = "failed" => Len(e) = Len(errors[c]) + 1
      PROVE  FInv'
  <2> DEFINE s == Append(asked[c], NextSql(c))
  <2>1. at[c] = "query" /\ UNCHANGED <<flags, accepts, instanceCacheVars, unreachableDB, vme>>
    BY <1>5 DEF Query
  <2>2. /\ asked[c] = <<>> \/ (asked[c] = <<"Sql">> /\ Has("SqlSU"))
        /\ Len(errors[c]) = Len(asked[c]) /\ errors[c] \in Seq(Errors)
    BY <2>1 DEF FInv, FetchTypeOK, Progress, Asking
  <2>3. s \in Questions /\ Len(s) = Len(asked[c]) + 1
    <3>1. CASE asked[c] = <<>>
      BY <3>1 DEF NextSql, Questions
    <3>2. CASE asked[c] = <<"Sql">> /\ Has("SqlSU")
      <4>1. NextSql(c) = "SqlSU"
        BY <2>2, <3>2 DEF NextSql, TriesAgain
      <4>2. s = Append(<<"Sql">>, "SqlSU")
        BY <3>2, <4>1, Zenon
      <4>3. s = <<"Sql", "SqlSU">>
        BY <4>2, AppendToOne, Zenon
      <4>4. s \in Questions
        BY <4>3, Zenon DEF Questions
      <4>5. Len(s) = 2 /\ Len(asked[c]) = 1
        BY <3>2, <4>3
      <4>6. QED
        BY <4>4, <4>5
    <3>3. QED
      BY <2>2, <3>1, <3>2
  <2> HIDE DEF s
  <2>4. asked' = [asked EXCEPT ![c] = s]
    BY <1>5 DEF Query, s
  <2>5. asked'[c] = s /\ errors'[c] = e
    BY <1>5, <2>4 DEF FInv, FetchTypeOK
  <2>6. Asking(place, asked'[c], errors'[c])
    BY <1>5, <2>2, <2>3, <2>5 DEF Asking
  <2>7. asked' \in [Gatherers -> Questions] /\ errors' \in [Gatherers -> Seq(Errors)]
    BY <1>5, <2>3, <2>4 DEF FInv, FetchTypeOK, Questions
  <2>8. /\ vme' \in [Gatherers -> Known]
        /\ place \in FetchPlaces /\ place \notin {"stamp", "copy"}
    BY <2>1, <1>5 DEF FInv, FetchTypeOK, FetchPlaces
  <2>9. \A d \in Gatherers \ {c} : asked'[d] = asked[d] /\ errors'[d] = errors[d]
    BY <1>5, <2>4 DEF FInv, FetchTypeOK
  <2>10. QED
    BY <1>1, <1>5, <1>3, <2>1, <2>6, <2>7, <2>8, <2>9, GotoInv DEF instanceCacheVars
<1>6. errors[c] \in Seq(Errors) /\ errors = [errors EXCEPT ![c] = errors[c]]
  BY DEF FInv, FetchTypeOK
<1>7. CASE QuerySucceeds(c)
  <2>1. Query(c) /\ Goto(c, "answered", 0) /\ errors' = [errors EXCEPT ![c] = errors[c]]
    BY <1>6, <1>7 DEF QuerySucceeds
  <2>2. Len(errors[c]) <= Len(errors[c]) + 1
    BY <1>6
  <2>3. QED
    BY <1>5, <1>6, <2>1, <2>2
<1>8. CASE QueryFails(c)
  <2>1. PICK x \in Errors : errors' = [errors EXCEPT ![c] = Append(@, x)]
    BY <1>8 DEF QueryFails, Errors
  <2>2. /\ Append(errors[c], x) \in Seq(Errors)
        /\ Len(Append(errors[c], x)) = Len(errors[c]) + 1
    BY <1>6
  <2>3. Query(c) /\ Goto(c, "failed", 0)
    BY <1>8 DEF QueryFails
  <2>4. Len(Append(errors[c], x)) <= Len(errors[c]) + 1
    BY <1>6, <2>2
  <2>5. QED
    BY <1>5, <2>1, <2>2, <2>3, <2>4
<1>9. QED
  BY <1>2, <1>4, <1>7, <1>8

\* The errors that a call may return are those that it got.
LEMMA FailInv ==
  ASSUME FInv, NEW c \in Gatherers, Fail(c)
  PROVE  FInv'
<1>1. /\ errors[c] # <<>> /\ errors[c] \in Seq(Errors) /\ Len(errors[c]) = Len(asked[c])
      /\ unreachableDB \subseteq Dbs /\ DbOf[c] \in Dbs
  BY FetchAssumption DEF FetchAssumption, Fail, FInv, FetchTypeOK, Progress, Asking
<1>2. LastError(c) \in Errors /\ errors[c][1] \in Errors
  <2>1. 1 \in 1 .. Len(errors[c]) /\ Len(errors[c]) \in 1 .. Len(errors[c])
    BY <1>1
  <2>2. QED
    BY <1>1, <2>1 DEF LastError
<1>3. CASE FailInRecovery(c)
  BY <1>1, <1>2, <1>3, ResultsAre, EndFetchInv DEF Fail, FailInRecovery
<1>4. CASE ReportDown(c)
  BY <1>1, <1>4, ResultsAre, EndFetchInv DEF Fail, ReportDown
<1>5. CASE FailOrTryAgain(c)
  <2>1. unreachableDB' \subseteq Dbs
    BY <1>1, <1>5 DEF FailOrTryAgain
  <2>2. CASE MayTryAgain(c)
    <3>1. Asking("query", asked[c], errors[c])
      BY <1>1, <2>2 DEF MayTryAgain, Asking
    <3>2. "query" \in FetchPlaces
      BY DEF FetchPlaces
    <3>3. Goto(c, "query", waited[c]) /\ UNCHANGED localVars
      BY <1>5, <2>2 DEF FailOrTryAgain
    <3>4. QED
      BY <2>1, <3>1, <3>2, <3>3, GoOnInv DEF Fail
  <2>3. CASE ~MayTryAgain(c)
    <3>1. EndFetch(c, "error", errors[c][1], 0)
      BY <1>5, <2>3 DEF FailOrTryAgain
    <3>2. QED
      BY <1>2, <2>1, <3>1, ResultsAre, EndFetchInv DEF Fail
  <2>4. QED
    BY <2>2, <2>3
<1>6. QED
  BY <1>3, <1>4, <1>5 DEF Fail
\* The rows are used, or thrown away.
LEMMA AnsweredInv ==
  ASSUME FInv, NEW c \in Gatherers,
         Succeed(c) \/ RemovedMeanwhile(c) \/ PutNothing(c) \/ PutRows(c)
  PROVE  FInv'
<1>1. /\ unreachableDB \subseteq Dbs
      /\ Len(errors[c]) <= Len(asked[c])
      /\ "put" \in FetchPlaces /\ "stamp" \in FetchPlaces
      /\ waited[c] \in 0 .. MaxWait /\ waited[c] \in Ages
  BY AgesAre DEF FInv, FetchTypeOK, FetchPlaces
<1>2. Asking("put", asked[c], errors[c]) /\ Asking("stamp", asked[c], errors[c])
  BY <1>1 DEF Asking
<1>3. CASE Succeed(c)
  <2>1. /\ Goto(c, "put", waited[c]) /\ unreachableDB' \subseteq Dbs
        /\ UNCHANGED <<flags, accepts, instanceCacheVars, localVars>>
    BY <1>1, <1>3 DEF Succeed
  <2>2. QED
    BY <1>1, <1>2, <2>1, GoOnInv
<1>4. CASE RemovedMeanwhile(c)
  BY <1>1, <1>4, ResultsAre, EndFetchInv DEF RemovedMeanwhile
<1>5. CASE PutNothing(c)
  BY <1>1, <1>5, ResultsAre, EndFetchInv DEF PutNothing
<1>6. CASE PutRows(c)
  <2>1. /\ Goto(c, "stamp", waited[c]) /\ instanceMetricCache' = waited[c]
        /\ UNCHANGED <<flags, accepts, instanceMetricCacheTimestamp, unreachableDB, localVars>>
    BY <1>6 DEF PutRows
  <2>2. /\ vme' \in [Gatherers -> Known]
        /\ asked' \in [Gatherers -> Questions] /\ errors' \in [Gatherers -> Seq(Errors)]
        /\ UNCHANGED <<asked, errors>>
    BY <2>1 DEF FInv, FetchTypeOK, Questions, localVars
  <2>3. Asking("stamp", asked'[c], errors'[c])
    BY <1>2, <2>2
  <2>4. QED
    BY <1>1, <2>1, <2>2, <2>3, GotoInv
<1>7. QED
  BY <1>3, <1>4, <1>5, <1>6

\* The stamp is of the time when it is set.
LEMMA PutStampInv ==
  ASSUME FInv, NEW c \in Gatherers, PutStamp(c)
  PROVE  FInv'
<1> USE DEF PutStamp
<1>1. FetchTypeOK /\ Progress /\ RowsAndStamp
  BY DEF FInv
<1>2. /\ instanceMetricCache \in Nat /\ MaxWait \in Nat /\ MaxAge \in Nat
      /\ waited[c] \in Nat /\ waited[c] <= MaxWait /\ waited[c] \in Ages
      /\ Never = MaxAge + 3 * MaxWait + 2
  BY <1>1, AgesAre DEF FetchTypeOK
<1>3. instanceMetricCache <= MaxWait + waited[c]
  BY <1>1 DEF RowsAndStamp, Aging
<1>4. instanceMetricCache # Never /\ instanceMetricCache <= 0 + 2 * MaxWait
  BY <1>2, <1>3
<1>5. FetchTypeOK' /\ Progress'
  <2>1. /\ instanceMetricCacheTimestamp' \in Ages /\ unreachableDB' \subseteq Dbs
        /\ [kind |-> "rows", error |-> "none", age |-> waited[c]] \in Results
    BY <1>1, <1>2, AgesAre, ResultsAre DEF FetchTypeOK
  <2>2. QED
    BY <1>1, <2>1, EndFetchTypes
<1>6. RowsAndStamp'
  <2>1. ASSUME NEW d \in Gatherers PROVE Aging(at[d], waited[d])'
    <3>1. CASE d = c
      <4>1. at'[d] = "idle"
        BY <1>1, <3>1 DEF FetchTypeOK, EndFetch
      <4>2. QED
        BY <4>1 DEF Aging
    <3>2. CASE d # c
      <4>1. at'[d] = at[d] /\ waited'[d] = waited[d] /\ waited[d] \in 0 .. MaxWait
        BY <1>1, <3>2 DEF FetchTypeOK, EndFetch
      <4>2. Aging(at[d], waited[d])
        BY <1>1 DEF RowsAndStamp
      <4>3. QED
        BY <1>2, <4>1, <4>2 DEF Aging
    <3>3. QED
      BY <3>1, <3>2
  <2>2. QED
    BY <1>4, <2>1 DEF RowsAndStamp
<1>7. CachedNotTooOld'
  BY DEF CachedNotTooOld, EndFetch
<1>8. QED
  BY <1>5, <1>6, <1>7 DEF FInv

\* Time passes for rows, stamp and calls alike.
LEMMA FetchTimeInv ==
  ASSUME FInv, TimePasses
  PROVE  FInv'
<1> USE DEF FInv, TimePasses, flags, localVars
<1>1. /\ MaxWait \in Nat /\ MaxAge \in Nat
      /\ Oldest = MaxAge + 3 * MaxWait + 1 /\ Never = Oldest + 1
      /\ instanceMetricCache \in 0 .. Never /\ instanceMetricCacheTimestamp \in 0 .. Never
  BY AgesAre DEF FetchTypeOK, Ages
<1>2. \A c \in Gatherers : waited[c] \in Nat /\ waited[c] <= MaxWait
  BY <1>1 DEF FetchTypeOK
<1>3. waited' \in [Gatherers -> 0 .. MaxWait]
  BY <1>1, <1>2
<1>4. FetchTypeOK'
  BY <1>3, AgesAre, ResultsAre DEF FetchTypeOK
<1>5. Progress'
  BY DEF Progress, Asking, Has
<1>6. RowsAndStamp'
  <2>1. instanceMetricCacheTimestamp' # Never =>
          /\ instanceMetricCache' # Never
          /\ instanceMetricCache' <= instanceMetricCacheTimestamp' + 2 * MaxWait
    BY <1>1 DEF RowsAndStamp, Older
  <2>2. ASSUME NEW c \in Gatherers PROVE Aging(at[c], waited[c])'
    <3>1. at[c] \in {"stamp", "copy"} => waited'[c] = waited[c] + 1
      OBVIOUS
    <3>2. Aging(at[c], waited[c])
      BY DEF RowsAndStamp
    <3>3. QED
      BY <1>1, <1>2, <3>1, <3>2 DEF Aging, Older
  <2>3. QED
    BY <2>1, <2>2 DEF RowsAndStamp
<1>7. CachedNotTooOld'
  BY DEF CachedNotTooOld, NoResult
<1>8. QED
  BY <1>4, <1>5, <1>6, <1>7

\* Every step preserves the invariant.
LEMMA FetchNextInv == FInv /\ [FetchNext]_fetchVars => FInv'
<1> SUFFICES ASSUME FInv, [FetchNext]_fetchVars PROVE FInv'
  OBVIOUS
<1>1. CASE \E c \in Gatherers : FetchMetrics(c)
  BY <1>1, BeginInv, LookInCacheInv, QueryInv, FailInv, AnsweredInv, PutStampInv DEF FetchMetrics
<1>2. CASE RefusesOrAccepts
  <2>1. accepts' \subseteq Dbs
    BY <1>2 DEF RefusesOrAccepts, FInv, FetchTypeOK
  <2>2. QED
    BY <1>2, <2>1, ResultsAre DEF RefusesOrAccepts, FInv, FetchTypeOK, Progress, Asking, Has,
       RowsAndStamp, Aging, CachedNotTooOld, NoResult, flags, instanceCacheVars, localVars
<1>3. CASE TimePasses
  BY <1>3, FetchTimeInv
<1>4. CASE UNCHANGED fetchVars
  BY <1>4 DEF fetchVars, FInv, FetchTypeOK, Progress, Asking, Has, RowsAndStamp, Aging,
     CachedNotTooOld, flags, instanceCacheVars, localVars
<1>5. QED
  BY <1>1, <1>2, <1>3, <1>4 DEF FetchNext

\* The invariant of FetchMetrics.
THEOREM FetchInvariance == FetchSpec => []FInv
<1>1. QED
  BY FetchInitInv, FetchNextInv, PTL DEF FetchSpec

\* A fetch asks at most twice, in the order of rights.
THEOREM FetchTypesOK == FetchSpec => []FetchTypeOK
<1>1. FInv => FetchTypeOK
  BY DEF FInv
<1>2. QED
  BY <1>1, FetchInvariance, PTL

\* However the calls of any number of databases of one server overlap, what one of them
\* gets from the cache is at most three waits older than the cache may be.
THEOREM CachedIsNotTooOld == FetchSpec => []CachedNotTooOld
<1>1. FInv => CachedNotTooOld
  BY DEF FInv
<1>2. QED
  BY <1>1, FetchInvariance, PTL

-----------------------------------------------------------------------------
(* disabled_days and disabled_times.                                       *)

\* A moment of the week is a day and a time of day, and only one of each.
LEMMA DayAndTime ==
  ASSUME NEW moment \in 0 .. TicksPerWeek - 1
  PROVE  /\ moment \div TicksPerDay \in 0 .. 6 /\ moment % TicksPerDay \in 0 .. TicksPerDay - 1
         /\ \A d \in 0 .. 6, t \in 0 .. TicksPerDay - 1 :
              moment = d * TicksPerDay + t <=>
                d = moment \div TicksPerDay /\ t = moment % TicksPerDay
<1> DEFINE N == TicksPerDay
           D == moment \div N
           T == moment % N
<1>1. N \in Nat \ {0} /\ moment \in 0 .. 7 * N - 1
  BY DisabledAssumption DEF DisabledAssumption, TicksPerWeek
<1>2. D \in 0 .. 6 /\ T \in 0 .. N - 1 /\ moment = D * N + T
  BY <1>1
<1> HIDE DEF D, T, N
<1>3. ASSUME NEW d \in 0 .. 6, NEW t \in 0 .. N - 1, D * N + T = d * N + t
      PROVE  d = D /\ t = T
  <2>1. CASE d < D
    <3>1. D * N >= (d + 1) * N
      BY <1>1, <1>2, <2>1
    <3>2. QED
      BY <1>1, <1>2, <1>3, <3>1
  <2>2. CASE d > D
    <3>1. d * N >= (D + 1) * N
      BY <1>1, <1>2, <2>2
    <3>2. QED
      BY <1>1, <1>2, <1>3, <3>1
  <2>3. CASE d = D
    <3>1. d * N \in Nat
      BY <1>1
    <3>2. QED
      BY <1>1, <1>2, <1>3, <2>3, <3>1
  <2>4. QED
    BY <1>2, <2>1, <2>2, <2>3
<1>4. QED
  BY <1>2, <1>3 DEF D, T, N

\* Where the clock is.
LEMMA ClockIs ==
  ASSUME DisabledTypeOK
  PROVE  /\ Weekday \in 0 .. 6 /\ TimeOfDay \in 0 .. TicksPerDay - 1
         /\ \A d \in 0 .. 6, t \in 0 .. TicksPerDay - 1 :
              now = d * TicksPerDay + t <=> d = Weekday /\ t = TimeOfDay
  BY DayAndTime DEF DisabledTypeOK, Weekday, TimeOfDay

\* The days that a restriction is for.
DaysOf(x) ==
  IF x.days = {} THEN 0 .. 6
  ELSE {i \in 0 .. 6 : \E r \in x.days : i \in r[1] .. r[2] \/ (i = 0 /\ 7 \in r[1] .. r[2])}

\* 7 is Sunday too.
LEMMA InDaysIff ==
  ASSUME DisabledTypeOK, NEW x
  PROVE  Weekday \in DaysOf(x) <=> x.days = {} \/ IsInDaySpan(x.days)
  BY ClockIs DEF DaysOf, IsInDaySpan, DaysStringToIntMap

\* The moments of a day on which a restriction without times is in force.
LEMMA InDayIff ==
  ASSUME DisabledTypeOK, NEW d \in 0 .. 6
  PROVE  now \in d * TicksPerDay .. (d + 1) * TicksPerDay - 1 <=> d = Weekday
<1> DEFINE N == TicksPerDay
<1>1. N \in Nat \ {0} /\ now \in 0 .. 7 * N - 1
  BY DisabledAssumption DEF DisabledAssumption, TicksPerWeek, DisabledTypeOK
<1>2. ASSUME now \in d * N .. (d + 1) * N - 1 PROVE d = Weekday
  <2>1. now - d * N \in 0 .. N - 1
    BY <1>1, <1>2
  <2>2. now = d * N + (now - d * N)
    BY <1>1
  <2>3. QED
    BY <2>1, <2>2, ClockIs
<1>3. ASSUME d = Weekday PROVE now \in d * N .. (d + 1) * N - 1
  <2>1. TimeOfDay \in 0 .. N - 1 /\ now = d * N + TimeOfDay
    BY <1>3, ClockIs
  <2>2. QED
    BY <1>1, <2>1
<1>4. QED
  BY <1>2, <1>3

\* The moments of a day at which a range that does not go over midnight is in force.
Length(r) == (r[2] + TicksPerDay - r[1]) % TicksPerDay
From(d, r) == {(d * TicksPerDay + r[1] + k) % TicksPerWeek : k \in 1 .. Length(r) - 1}

LEMMA InTimeIff ==
  ASSUME DisabledTypeOK, NEW d \in 0 .. 6, NEW r,
         r[1] \in 0 .. TicksPerDay - 1, r[2] \in 0 .. TicksPerDay - 1, r[1] <= r[2]
  PROVE  now \in From(d, r) <=> d = Weekday /\ IsInTimeSpan(r)
<1> DEFINE N == TicksPerDay
           f == r[1]
           t == r[2]
<1>1. N \in Nat \ {0} /\ now \in 0 .. 7 * N - 1 /\ TicksPerWeek = 7 * N
  BY DisabledAssumption DEF DisabledAssumption, TicksPerWeek, DisabledTypeOK
<1> HIDE DEF f, t, N
<1>2. f \in 0 .. N - 1 /\ t \in 0 .. N - 1 /\ f <= t
  BY DEF f, t, N
<1>3. Length(r) = t - f
  <2>1. t - f \in 0 .. N - 1 /\ (t - f) + N = t + N - f
    BY <1>1, <1>2
  <2>2. ((t - f) + N) % N = t - f
    BY <1>1, <2>1
  <2>3. QED
    BY <2>1, <2>2 DEF Length, f, t, N
<1>4. ASSUME NEW k \in 1 .. (t - f) - 1
      PROVE  (d * N + f + k) % TicksPerWeek = d * N + (f + k) /\ f + k \in 0 .. N - 1
  <2>1. f + k \in 0 .. N - 1
    BY <1>1, <1>2
  <2>2. d * N + (f + k) \in 0 .. 7 * N - 1 /\ d * N + f + k = d * N + (f + k)
    BY <1>1, <1>2, <2>1
  <2>3. QED
    BY <1>1, <2>1, <2>2
<1>5. IsInTimeSpan(r) <=> f < TimeOfDay /\ TimeOfDay < t
  BY <1>1, <1>2 DEF IsInTimeSpan, f, t
<1>6. ASSUME now \in From(d, r) PROVE d = Weekday /\ IsInTimeSpan(r)
  <2>1. PICK k \in 1 .. (t - f) - 1 : now = (d * N + f + k) % TicksPerWeek
    BY <1>3, <1>6 DEF From, f, N
  <2>2. now = d * N + (f + k) /\ f + k \in 0 .. N - 1
    BY <1>4, <2>1
  <2>3. d = Weekday /\ f + k = TimeOfDay
    BY <2>2, ClockIs DEF N
  <2>4. QED
    BY <1>2, <1>5, <2>3
<1>7. ASSUME d = Weekday, IsInTimeSpan(r) PROVE now \in From(d, r)
  <2> DEFINE k == TimeOfDay - f
  <2>1. TimeOfDay \in 0 .. N - 1 /\ now = d * N + TimeOfDay
    BY <1>7, ClockIs DEF N
  <2>2. k \in 1 .. (t - f) - 1 /\ f + k = TimeOfDay
    BY <1>2, <1>5, <1>7, <2>1
  <2>3. now = (d * N + f + k) % TicksPerWeek
    BY <1>4, <2>1, <2>2
  <2>4. QED
    BY <1>3, <2>2, <2>3 DEF From, f, N
<1>8. QED
  BY <1>6, <1>7
\* What a restriction says, as moments of the week, is what the code decides by the day
\* and the time of day.
LEMMA InMomentsIff ==
  ASSUME DisabledTypeOK, NEW x, IsWellFormed(x), \A r \in x.times : r[1] <= r[2]
  PROVE  now \in Moments(x) <=>
           /\ x.times = {} \/ InSomeTimeSpan(x.times)
           /\ x.days = {} \/ IsInDaySpan(x.days)
<1>1. CASE x.times = {}
  <2>1. Moments(x) = UNION {d * TicksPerDay .. (d + 1) * TicksPerDay - 1 : d \in DaysOf(x)}
    BY <1>1 DEF Moments, DaysOf
  <2>2. now \in Moments(x) <=> Weekday \in DaysOf(x)
    <3>1. DaysOf(x) \subseteq 0 .. 6
      BY DEF DaysOf
    <3>2. QED
      BY <2>1, <3>1, InDayIff
  <2>3. QED
    BY <1>1, <2>2, InDaysIff
<1>2. CASE x.times # {}
  <2>1. Moments(x) = UNION {From(d, r) : d \in DaysOf(x), r \in x.times}
    BY <1>2 DEF Moments, DaysOf, From, Length
  <2>2. DaysOf(x) \subseteq 0 .. 6
    BY DEF DaysOf
  <2>3. \A r \in x.times :
          r[1] \in 0 .. TicksPerDay - 1 /\ r[2] \in 0 .. TicksPerDay - 1 /\ r[1] <= r[2]
    BY DEF IsWellFormed
  <2>4. now \in Moments(x) <=> \E d \in DaysOf(x), r \in x.times : now \in From(d, r)
    BY <2>1
  <2>5. now \in Moments(x) <=> Weekday \in DaysOf(x) /\ InSomeTimeSpan(x.times)
    BY <2>2, <2>3, <2>4, InTimeIff DEF InSomeTimeSpan
  <2>6. QED
    BY <1>2, <2>5, InDaysIff
<1>3. QED
  BY <1>1, <1>2

\* The settings are restrictions.
LEMMA SettingsAre ==
  ASSUME DisabledTypeOK
  PROVE  /\ IsWellFormed(attrs)
         /\ Len(perMetric) \in Nat /\ DOMAIN perMetric = 1 .. Len(perMetric)
         /\ \A i \in DOMAIN perMetric : IsWellFormed(perMetric[i]) /\ perMetric[i].ours \in BOOLEAN
<1>1. attrs \in MetricAttrs /\ perMetric \in HostConfigs
  BY DEF DisabledTypeOK
<1>2. IsWellFormed(attrs)
  BY <1>1, DisabledAssumption DEF DisabledAssumption
<1>3. \A i \in DOMAIN perMetric : IsWellFormed(perMetric[i]) /\ perMetric[i].ours \in BOOLEAN
  BY <1>1, DisabledAssumption DEF DisabledAssumption
<1>4. perMetric \in Seq({perMetric[i] : i \in DOMAIN perMetric})
  BY <1>1, DisabledAssumption DEF DisabledAssumption
<1>5. Len(perMetric) \in Nat /\ DOMAIN perMetric = 1 .. Len(perMetric)
  <2> DEFINE S == {perMetric[i] : i \in DOMAIN perMetric}
  <2>1. perMetric \in Seq(S)
    BY <1>4
  <2> HIDE DEF S
  <2>2. QED
    BY <2>1
<1>6. QED
  BY <1>2, <1>3, <1>5

\* An entry of the database decides as its moments say if it is for the metric, and only
\* then, unless an entry says nothing.
LEMMA EntryDisablesIff ==
  ASSUME DisabledTypeOK, ~SaysNothing, ~OverMidnight, NEW i \in DOMAIN perMetric
  PROVE  HostEntryDisables(i) <=> i \in OurEntries /\ now \in Moments(perMetric[i])
<1> DEFINE x == perMetric[i]
<1>1. Restricts(x) /\ IsWellFormed(x)
  BY SettingsAre DEF SaysNothing
<1>2. CASE ~x.ours
  <2>1. i \notin OurEntries
    BY <1>2 DEF OurEntries
  <2>2. ~HostEntryDisables(i)
    BY <1>1, <1>2 DEF HostEntryDisables, Restricts
  <2>3. QED
    BY <2>1, <2>2
<1>3. CASE x.ours
  <2>1. i \in OurEntries
    BY <1>1, <1>3 DEF OurEntries
  <2>2. \A r \in x.times : r[1] <= r[2]
    BY <2>1, <1>1 DEF OverMidnight, Settings, IsWellFormed
  <2>3. HostConfigMetricMatch(i)
    BY <1>3, SettingsAre DEF HostConfigMetricMatch
  <2>4. HostEntryDisables(i) <=>
          /\ x.times = {} \/ InSomeTimeSpan(x.times)
          /\ x.days = {} \/ IsInDaySpan(x.days)
    BY <1>3, <2>3 DEF HostEntryDisables
  <2>5. QED
    BY <1>1, <2>1, <2>2, <2>4, InMomentsIff
<1>4. QED
  BY <1>2, <1>3

\* What the metric's definition says counts if no entry of the database is for the metric.
LEMMA SkipsIff ==
  ASSUME DisabledTypeOK, detailsKnown, ~SaysNothing, ~OverMidnight
  PROVE  IsMetricCurrentlyDisabledForHost <=> now \in PausedMoments
<1>1. DOMAIN perMetric = 1 .. Len(perMetric) /\ Len(perMetric) \in Nat /\ IsWellFormed(attrs)
  BY SettingsAre
<1>2. OurEntries = {i \in DOMAIN perMetric : perMetric[i].ours}
  BY DEF OurEntries, SaysNothing
<1>3. HostConfigMetricMatch(Len(perMetric)) <=> OurEntries # {}
  BY <1>1, <1>2 DEF HostConfigMetricMatch
<1>4. HasOverrides <=> OurEntries # {}
  BY DEF HasOverrides, OurEntries, Restricts
<1>5. (\E i \in DOMAIN perMetric : HostEntryDisables(i)) <=>
        \E i \in OurEntries : now \in Moments(perMetric[i])
  BY EntryDisablesIff DEF OurEntries
<1>6. CASE OurEntries # {}
  <2>1. PausedMoments = UNION {Moments(perMetric[i]) : i \in OurEntries}
    BY <1>6 DEF PausedMoments, Settings
  <2>2. QED
    BY <1>3, <1>4, <1>5, <1>6, <2>1
    DEF IsMetricCurrentlyDisabledForHost, IsInDisabledTimeDayRange
<1>7. CASE OurEntries = {} /\ Restricts(attrs)
  <2>1. PausedMoments = Moments(attrs) /\ \A r \in attrs.times : r[1] <= r[2]
    BY <1>1, <1>7 DEF PausedMoments, Settings, OverMidnight, IsWellFormed
  <2>2. now \in Moments(attrs) <=>
          /\ attrs.times = {} \/ InSomeTimeSpan(attrs.times)
          /\ attrs.days = {} \/ IsInDaySpan(attrs.days)
    BY <1>1, <2>1, InMomentsIff
  <2>3. QED
    BY <1>3, <1>5, <1>7, <2>1, <2>2
    DEF IsMetricCurrentlyDisabledForHost, IsInDisabledTimeDayRange, Restricts
<1>8. CASE OurEntries = {} /\ ~Restricts(attrs)
  <2>1. PausedMoments = {}
    BY <1>8 DEF PausedMoments, Settings
  <2>2. QED
    BY <1>4, <1>8, <2>1 DEF IsMetricCurrentlyDisabledForHost, Restricts
<1>9. QED
  BY <1>6, <1>7, <1>8

\* The clock stays within the week.
THEOREM DisabledTypesOK == DisabledSpec => []DisabledTypeOK
<1>1. DisabledInit => DisabledTypeOK
  BY DisabledAssumption DEF DisabledAssumption, DisabledInit, DisabledTypeOK, TicksPerWeek
<1>2. DisabledTypeOK /\ [DisabledNext]_disabledVars => DisabledTypeOK'
  <2> SUFFICES ASSUME DisabledTypeOK, [DisabledNext]_disabledVars PROVE DisabledTypeOK'
    OBVIOUS
  <2> USE DEF DisabledTypeOK
  <2>1. CASE GatherOrSkip
    BY <2>1 DEF GatherOrSkip
  <2>2. CASE MinutePasses
    <3>1. TicksPerWeek \in Nat \ {0} /\ now + 1 \in Nat
      BY DisabledAssumption DEF DisabledAssumption, TicksPerWeek
    <3>2. now' \in 0 .. TicksPerWeek - 1
      BY <2>2, <3>1 DEF MinutePasses
    <3>3. QED
      BY <2>2, <3>2 DEF MinutePasses
  <2>3. CASE SettingsChange
    BY <2>3 DEF SettingsChange
  <2>4. CASE UNCHANGED disabledVars
    BY <2>4 DEF disabledVars
  <2>5. QED
    BY <2>1, <2>2, <2>3, <2>4 DEF DisabledNext
<1>3. QED
  BY <1>1, <1>2, PTL DEF DisabledSpec

\* For days of any length, and any settings of the metric and the database without a range
\* over midnight, IsMetricCurrentlyDisabledForHost skips a fetch at the moments of the
\* week that the settings say, and at no other.
THEOREM FetchesPauseAsTold == DisabledSpec => PausesAsTold
<1>1. DisabledTypeOK /\ [DisabledNext]_disabledVars =>
        [GatherOrSkip /\ detailsKnown /\ ~SaysNothing /\ ~OverMidnight =>
           (lastPass' = "skipped" <=> now \in PausedMoments)]_disabledVars
  <2> SUFFICES ASSUME DisabledTypeOK, GatherOrSkip, detailsKnown, ~SaysNothing, ~OverMidnight
               PROVE  lastPass' = "skipped" <=> now \in PausedMoments
    OBVIOUS
  <2>1. lastPass' = "skipped" <=> IsMetricCurrentlyDisabledForHost
    BY DEF GatherOrSkip
  <2>2. QED
    BY <2>1, SkipsIff
<1>2. QED
  BY <1>1, DisabledTypesOK, PTL DEF DisabledSpec, PausesAsTold
-----------------------------------------------------------------------------
(* All parts of the gatherers.                                             *)

\* A behaviour of MCGatherers is one of every part: of the part that is looked at, and of
\* the others because they may stutter.
THEOREM GatherersImplementParts ==
  Spec => VersionSpec /\ FetchSpec /\ ChangeSpec /\ LogSpec /\ DisabledSpec
<1>1. Init => VersionInit /\ FetchInit /\ ChangeInit /\ LogInit /\ DisabledInit
  BY DEF Init
<1>2. [Next]_vars => /\ [VersionNext]_versionVars
                     /\ [FetchNext]_fetchVars
                     /\ [ChangeNext]_changeVars
                     /\ [LogNext]_logVars
                     /\ [DisabledNext]_disabledVars
  BY DEF Next, vars
<1>3. QED
  BY <1>1, <1>2, PTL DEF Spec, VersionSpec, FetchSpec, ChangeSpec, LogSpec, DisabledSpec

\* What the version cache, FetchMetrics, change detection, the log reader and the check of
\* disabled times keep has its types.
THEOREM GatherersTypesOK == Spec => []GatherersTypeOK
<1>1. QED
  BY GatherersImplementParts, VersionTypesOK, FetchTypesOK, ChangeTypesOK, LogTypesOK,
     DisabledTypesOK, PTL DEF GatherersTypeOK

\* The invariants and action properties of MCGatherers, for every value of its constants.
THEOREM GatherersAreSafe ==
  Spec => /\ []NotOlderThanItsCall /\ []CachedNotTooOld /\ []RemembersLastLook /\ []LinesCounted
          /\ UpWasReached /\ ChangedIffReported /\ PausesAsTold
<1>1. QED
  BY GatherersImplementParts, EntryNotOlderThanItsCall, CachedIsNotTooOld, LastLookRemembered,
     LinesAreCounted, UpOnlyIfReached, ReportsAreRight, FetchesPauseAsTold, PTL
=============================================================================
