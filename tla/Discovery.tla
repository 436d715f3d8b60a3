----------------------------- MODULE Discovery ------------------------------
(***************************************************************************)
(* How an entry of the configuration that does not name one database       *)
(* becomes databases to monitor: the members of a Patroni cluster are read *)
(* from its DCS, the databases of a server from the server.  Entries share *)
(* nothing but the round of the main loop, so this is one entry.           *)
(*                                                                         *)
(* Names are strings that the code joins with "_".  Here a name is the     *)
(* sequence of its parts between the "_"s, and joining is concatenation:   *)
(* two names are the same exactly if the strings are.                      *)
(***************************************************************************)
EXTENDS FiniteSets, Naturals, Sequences

CONSTANTS
  Members,         \* the members that the clusters may have
  Scopes,          \* the names of the clusters of one namespace
  ScopeOf,         \* the cluster of each member
  NameOf,          \* the name of each member, which no other of its cluster has
  EntryName,       \* the entry's own name
  TheScope,        \* the cluster that it names if it is not for the namespace
  TheDatabase,     \* the database that it names, if it names one
  BadUrl,          \* members whose conn_url has not the form that is expected
  Datnames,        \* names of databases that may match the patterns of the entry
  DBTypes,         \* kinds of entry to consider; "patroni" is "patroni-continuous" too
  FirstMembers,    \* contents of the DCS at the beginning
  MaxChanges       \* bound on what happens to clusters, servers and the DCS, and
                   \* on its incomplete answers

Roles == {"master", "replica"}
Gone == "gone"

ASSUME DiscoveryAssumption ==
  /\ Scopes \cup Datnames \cup {EntryName, TheDatabase} \subseteq Seq(STRING)
  /\ ScopeOf \in [Members -> Scopes]
  /\ NameOf \in [Members -> Seq(STRING)]
  /\ \A m, n \in Members : ScopeOf[m] = ScopeOf[n] /\ NameOf[m] = NameOf[n] => m = n
  /\ TheScope \in Scopes
  /\ BadUrl \subseteq Members
  /\ DBTypes \subseteq {"patroni", "patroni-namespace-discovery", "postgres-continuous"}
  /\ FirstMembers \in [Members -> Roles \cup {Gone}]
  /\ MaxChanges \in Nat

VARIABLES
  DBType, DcsType, OnlyIfMaster,   \* of the entry, fixed
  hasDBName,       \* it names the database, fixed
  dcs,             \* the members' entries in the DCS, with their roles; one that
                   \* cannot be parsed is passed over, as one that is gone
  dcsUp,           \* the DCS can be read
  up,              \* members (or, for one server, the server) that can be reached
  datnames,        \* databases that exist
  changes,         \* changes so far
  lastFound,       \* lastFoundClusterMembers[ce.DBUniqueName], a set of members with roles
  known,           \* it has an entry
  resolving,       \* a round is resolving the entry
  cm,              \* members found and not yet processed
  md,              \* databases resolved so far
  monitored,       \* databases of the last complete round
  failed           \* history: the round could not read the DCS

entryVars == <<DBType, DcsType, OnlyIfMaster, hasDBName>>
worldVars == <<dcs, dcsUp, up, datnames, changes>>
roundVars == <<lastFound, known, resolving, cm, md, monitored, failed>>
discoveryVars == <<entryVars, worldVars, roundVars>>

\* A member as it is found, under a name that may tell its cluster.
Found == [member : Members, role : Roles, Name : Seq(STRING)]
Databases ==
  [DBUniqueName : Seq(STRING), host : Members, datname : Datnames \cup {TheDatabase}]

ByNamespace == DBType = "patroni-namespace-discovery"

DiscoveryInit ==
  /\ DBType \in DBTypes
  /\ DcsType \in {"etcd", "zookeeper", "consul"}
  /\ ByNamespace => DcsType = "etcd"
  /\ OnlyIfMaster \in BOOLEAN
  /\ hasDBName \in (IF DBType = "patroni" THEN BOOLEAN ELSE {FALSE})
  /\ dcs = FirstMembers
  /\ dcsUp \in BOOLEAN
  /\ up = Members
  /\ datnames = Datnames
  /\ changes = 0
  /\ lastFound = {} /\ known = FALSE
  /\ resolving = FALSE /\ cm = {} /\ md = {} /\ monitored = {} /\ failed = FALSE

-----------------------------------------------------------------------------
(* Reading the DCS.  Each operator is the set of possible answers of a DCS *)
(* that can be reached.                                                    *)

FoundAs(m, name) == [member |-> m, role |-> dcs[m], Name |-> name]
Present(S) == {m \in S : dcs[m] # Gone}
MembersOf(scope) == {m \in Members : ScopeOf[m] = scope}

\* Members of one cluster that need no other name than their own.
Readable(S) == {FoundAs(m, NameOf[m]) : m \in Present(S)}

\* One call lists all members of the scope with their values.
ConsulGetClusterMembers == {Readable(MembersOf(TheScope))}

\* One call lists the names and one more each reads a member, which is left out if
\* that call fails.
ZookeeperGetClusterMembers == {Readable(S) : S \in SUBSET MembersOf(TheScope)}

\* A mutant of extractEtcdScopeMembers: the scope is never added.
extractWithoutScope(scope, addScopeToName) == Readable(MembersOf(scope))

\* One scope's members, in one call.
extractEtcdScopeMembers(scope, addScopeToName) ==
  {FoundAs(m, IF addScopeToName THEN scope \o NameOf[m] ELSE NameOf[m]) :
     m \in Present(MembersOf(scope))}

\* With one scope its failure is an error; of a namespace the scopes that cannot be
\* read are left out.
EtcdGetClusterMembers ==
  IF ByNamespace
    THEN {UNION {extractEtcdScopeMembers(s, TRUE) : s \in S} : S \in SUBSET Scopes}
    ELSE {extractEtcdScopeMembers(TheScope, FALSE)}

Answers ==
  CASE DcsType = "etcd" -> EtcdGetClusterMembers
    [] DcsType = "zookeeper" -> ZookeeperGetClusterMembers
    [] DcsType = "consul" -> ConsulGetClusterMembers

\* The answer that leaves nothing out.
FullAnswer ==
  IF ByNamespace THEN UNION {extractEtcdScopeMembers(s, TRUE) : s \in Scopes}
  ELSE Readable(MembersOf(TheScope))

-----------------------------------------------------------------------------
(* Resolving the entry.                                                    *)

FromPatroni == DBType # "postgres-continuous"
\* A mutant of BeginResolving: the result of the round before is added to.
BeginResolvingOn == ~resolving /\ resolving' = TRUE /\ md' = monitored

BeginResolving == ~resolving /\ resolving' = TRUE /\ md' = {}

\* An answer with something left out is a failure that counts among the changes.
FindMembers(answer) ==
  /\ FromPatroni
  /\ BeginResolving
  /\ dcsUp
  /\ IF answer = FullAnswer
       THEN UNCHANGED changes
       ELSE changes < MaxChanges /\ changes' = changes + 1
  /\ cm' = answer /\ lastFound' = answer /\ known' = TRUE
  /\ failed' = FALSE
  /\ UNCHANGED <<entryVars, dcs, dcsUp, up, datnames, monitored>>

\* A mutant of FindNoDcs: what was found last is not used.
FindNothing ==
  /\ FromPatroni
  /\ BeginResolving
  /\ ~dcsUp
  /\ cm' = {}
  /\ failed' = TRUE
  /\ UNCHANGED <<entryVars, worldVars, lastFound, known, monitored>>

\* The error is masked by what was found last, and if there is nothing the entry
\* resolves to nothing, without an error.
FindNoDcs ==
  /\ FromPatroni
  /\ BeginResolving
  /\ ~dcsUp
  /\ cm' = IF known THEN lastFound ELSE {}
  /\ failed' = TRUE
  /\ UNCHANGED <<entryVars, worldVars, lastFound, known, monitored>>

\* A mutant of UniqueName: masters of several scopes get the name of the entry.
UniqueNameOfEntry(f) == IF OnlyIfMaster THEN EntryName ELSE EntryName \o f.Name

UniqueName(f) ==
  IF ~OnlyIfMaster THEN EntryName \o f.Name
  ELSE IF ByNamespace THEN EntryName \o ScopeOf[f.member]
  ELSE EntryName

\* The databases that a member stands for: the one named, or those it lists.
DatabasesOf(f) ==
  IF hasDBName
    THEN {[DBUniqueName |-> UniqueName(f), host |-> f.member, datname |-> TheDatabase]}
    ELSE {[DBUniqueName |-> UniqueName(f) \o d, host |-> f.member, datname |-> d] :
            d \in IF f.member \in up THEN datnames ELSE {}}

ProcessMember(f) ==
  /\ resolving
  /\ cm' = cm \ {f}
  /\ md' = IF f.member \in BadUrl \/ (OnlyIfMaster /\ f.role # "master")
             THEN md ELSE md \cup DatabasesOf(f)
  /\ UNCHANGED <<entryVars, worldVars, lastFound, known, resolving, monitored, failed>>

\* The server of a "postgres-continuous" entry lists its databases; if it does not
\* answer on any of the template databases the entry is passed over this round.
Server == CHOOSE m \in Members : TRUE

ServerDatabases ==
  {[DBUniqueName |-> EntryName \o d, host |-> Server, datname |-> d] : d \in datnames}

ResolveDatabasesFromConfigEntry ==
  /\ ~FromPatroni
  /\ ~resolving /\ resolving' = TRUE
  /\ md' = IF Server \in up THEN ServerDatabases ELSE {}
  /\ UNCHANGED <<entryVars, worldVars, lastFound, known, cm, monitored, failed>>

\* The round goes on with what was resolved.
EndResolving ==
  /\ resolving
  /\ cm = {}
  /\ resolving' = FALSE
  /\ monitored' = md
  /\ UNCHANGED <<entryVars, worldVars, lastFound, known, cm, md, failed>>

-----------------------------------------------------------------------------
(* The clusters, the servers and the DCS.                                  *)

Happens ==
  /\ changes < MaxChanges
  /\ changes' = changes + 1
  /\ UNCHANGED <<entryVars, roundVars>>

\* Every member keeps its own entry, so that two may claim to be the master.
MemberChanges ==
  /\ Happens
  /\ \E m \in Members : \E r \in (Roles \cup {Gone}) \ {dcs[m]} : dcs' = [dcs EXCEPT ![m] = r]
  /\ UNCHANGED <<dcsUp, up, datnames>>

DcsGoesOrReturns ==
  /\ Happens
  /\ dcsUp' = ~dcsUp
  /\ UNCHANGED <<dcs, up, datnames>>

ServerGoesOrReturns ==
  /\ Happens
  /\ \E m \in Members : up' = (up \ {m}) \cup ({m} \ up)
  /\ UNCHANGED <<dcs, dcsUp, datnames>>

DatabaseComesOrGoes ==
  /\ Happens
  /\ \E d \in Datnames : datnames' = (datnames \ {d}) \cup ({d} \ datnames)
  /\ UNCHANGED <<dcs, dcsUp, up>>

Resolve ==
  \/ \E answer \in Answers : FindMembers(answer)
  \/ FindNoDcs
  \/ \E f \in cm : ProcessMember(f)
  \/ ResolveDatabasesFromConfigEntry
  \/ EndResolving

DiscoveryNext ==
  \/ Resolve
  \/ MemberChanges \/ DcsGoesOrReturns \/ ServerGoesOrReturns \/ DatabaseComesOrGoes

DiscoverySpec == DiscoveryInit /\ [][DiscoveryNext]_discoveryVars

\* The main loop goes round.
DiscoveryFairness == WF_discoveryVars(Resolve)

-----------------------------------------------------------------------------
(* Properties.                                                             *)

\* Types; without a memory there is nothing in it.
DiscoveryTypeOK ==
  /\ DBType \in DBTypes
  /\ DcsType \in {"etcd", "zookeeper", "consul"}
  /\ OnlyIfMaster \in BOOLEAN
  /\ hasDBName \in BOOLEAN
  /\ dcs \in [Members -> Roles \cup {Gone}]
  /\ dcsUp \in BOOLEAN
  /\ up \subseteq Members
  /\ datnames \subseteq Datnames
  /\ changes \in 0 .. MaxChanges
  /\ lastFound \subseteq Found
  /\ known \in BOOLEAN
  /\ resolving \in BOOLEAN
  /\ cm \subseteq Found
  /\ md \subseteq Databases
  /\ monitored \subseteq Databases
  /\ failed \in BOOLEAN
  /\ ~known => lastFound = {}

\* The comment at patroni.go:18: monitoring is not removed because the DCS is down.
\* A round that could not read the DCS leaves an entry that names its database
\* exactly as it was, whatever happened to the cluster in between.
OutageChangesNothing ==
  [][EndResolving /\ failed /\ hasDBName => monitored' = monitored]_discoveryVars

\* No "_" more in the one's name or cluster than in the other's.
AlikeNamed(m, n) ==
  Len(ScopeOf[m]) = Len(ScopeOf[n]) /\ Len(NameOf[m]) = Len(NameOf[n])

\* Two databases of one DBUniqueName would be monitored in turn by the same gatherers.
\* Names that are joined with "_" can be the same although their parts are not: a
\* member "a" with a database "b_c", and a member "a_b" with "c".  Where that is not the
\* reason, two databases have one name only if two members of one cluster claimed
\* to be its master in the same answer of the DCS.
NamesAreUnique ==
  ~resolving => \A x, y \in monitored :
    x.DBUniqueName = y.DBUniqueName /\ AlikeNamed(x.host, y.host) =>
      \/ x = y
      \/ /\ OnlyIfMaster
         /\ \A h \in {x.host, y.host} : \E f \in lastFound : f.member = h /\ f.role = "master"
         /\ ByNamespace => ScopeOf[x.host] = ScopeOf[y.host]

Wanted(f) == f.member \notin BadUrl /\ (OnlyIfMaster => f.role = "master")

\* Once the DCS and the servers stay reachable and nothing changes any more, what is
\* monitored is what the DCS and the servers say, and stays so: neither the memory
\* of former members nor a former failure remains.
DiscoveryConverges ==
  <>[](dcsUp /\ up = Members) =>
    <>[](monitored = IF FromPatroni
                       THEN UNION {DatabasesOf(f) : f \in {g \in FullAnswer : Wanted(g)}}
                       ELSE ServerDatabases)
=============================================================================
