--------------------------- MODULE Services_proofs ---------------------------
(***************************************************************************)
(* Proofs about the parts that deal with the services around the program:  *)
(* discovery, for any clusters, servers and entries; the asynchronous      *)
(* Prometheus cache, for any metrics, names for storage, configurations    *)
(* and capacity of the channel; and their composition with the persister's *)
(* parts for Influx, Graphite and the JSON file.                           *)
(***************************************************************************)
EXTENDS MCServices, SequenceTheorems, TLAPS

-----------------------------------------------------------------------------
(* Entries that are resolved.                                              *)

\* The name under which a member is found.
NameFor(m) == IF ByNamespace THEN ScopeOf[m] \o NameOf[m] ELSE NameOf[m]

\* A member that is found has its own name, with its cluster's if there may be several.
Told(f) ==
  /\ f.Name = NameFor(f.member)
  /\ ~ByNamespace => ScopeOf[f.member] = TheScope

\* The database of a found member, if the entry names the database.
NamedDatabase(f) ==
  [DBUniqueName |-> UniqueName(f), host |-> f.member, datname |-> TheDatabase]

NamedDatabases(S) == {NamedDatabase(f) : f \in {g \in S : Wanted(g)}}

\* What is resolved from a found member.
IsOf(x, f) ==
  /\ x.host = f.member
  /\ OnlyIfMaster => f.role = "master"
  /\ x.DBUniqueName = IF hasDBName THEN UniqueName(f) ELSE UniqueName(f) \o x.datname
  /\ hasDBName => x.datname = TheDatabase

\* Where a database comes from: a member that was found, or the one server.
ComesFromEntry(x) ==
  IF FromPatroni
    THEN \E f \in lastFound : IsOf(x, f)
    ELSE x.host = Server /\ x.DBUniqueName = EntryName \o x.datname

\* Members are processed that the memory holds, and become what the round resolves;
\* after a round, what is monitored is what the memory stands for.
MemoryInv ==
  /\ hasDBName => FromPatroni
  /\ ByNamespace => DcsType = "etcd"
  /\ \A f \in lastFound : Told(f)
  /\ cm \subseteq (IF FromPatroni THEN lastFound ELSE {})
  /\ resolving => \A x \in md : ComesFromEntry(x)
  /\ ~resolving => \A x \in monitored : ComesFromEntry(x)
  /\ hasDBName /\ resolving => md = NamedDatabases(lastFound \ cm)
  /\ hasDBName /\ (~resolving \/ failed) => monitored = NamedDatabases(lastFound)

DInv == DiscoveryTypeOK /\ MemoryInv

\* Joining loses nothing if the first parts are of one length.
LEMMA JoinedAlike ==
  ASSUME NEW S, NEW s \in Seq(S), NEW t \in Seq(S), NEW u \in Seq(S), NEW v \in Seq(S),
         s \o t = u \o v, Len(s) = Len(u)
  PROVE  s = u /\ t = v
<1>1. /\ Len(s) \in Nat /\ Len(t) \in Nat /\ Len(u) \in Nat /\ Len(v) \in Nat
      /\ Len(s \o t) = Len(s) + Len(t) /\ Len(u \o v) = Len(u) + Len(v)
      /\ \A i \in 1 .. Len(s) + Len(t) : (s \o t)[i] = IF i <= Len(s) THEN s[i] ELSE t[i - Len(s)]
      /\ \A i \in 1 .. Len(u) + Len(v) : (u \o v)[i] = IF i <= Len(u) THEN u[i] ELSE v[i - Len(u)]
  BY ConcatProperties, LenProperties
<1> DEFINE c == s \o t
           d == u \o v
<1> HIDE DEF c, d
<1>2. /\ Len(t) = Len(v)
      /\ \A i \in 1 .. Len(s) : c[i] = s[i] /\ d[i] = u[i]
      /\ \A j \in 1 .. Len(t) : c[Len(s) + j] = t[j] /\ d[Len(s) + j] = v[j]
      /\ c = d
  BY <1>1 DEF c, d
<1>3. s = u
  BY <1>2, SeqEqual
<1>4. t = v
  BY <1>2, SeqEqual
<1>5. QED
  BY <1>3, <1>4

\* Names are sequences of parts, joined or not.
LEMMA NamesAre ==
  /\ EntryName \in Seq(STRING) /\ TheDatabase \in Seq(STRING)
  /\ \A m \in Members :
       /\ ScopeOf[m] \in Seq(STRING) /\ NameOf[m] \in Seq(STRING) /\ NameFor(m) \in Seq(STRING)
       /\ EntryName \o ScopeOf[m] \in Seq(STRING)
       /\ EntryName \o NameFor(m) \in Seq(STRING)
  /\ \A d \in Datnames : d \in Seq(STRING) /\ EntryName \o d \in Seq(STRING)
  /\ {} \subseteq Databases
<1>1. EntryName \in Seq(STRING) /\ TheDatabase \in Seq(STRING)
  BY DiscoveryAssumption DEF DiscoveryAssumption
<1>2. \A s \in Seq(STRING), t \in Seq(STRING) : s \o t \in Seq(STRING)
  BY ConcatProperties
<1>3. ASSUME NEW m \in Members
      PROVE  ScopeOf[m] \in Seq(STRING) /\ NameOf[m] \in Seq(STRING) /\ NameFor(m) \in Seq(STRING)
  <2>1. ScopeOf[m] \in Scopes /\ Scopes \subseteq Seq(STRING) /\ NameOf[m] \in Seq(STRING)
    BY DiscoveryAssumption DEF DiscoveryAssumption
  <2>2. QED
    BY <2>1, <1>2 DEF NameFor
<1>4. \A d \in Datnames : d \in Seq(STRING)
  BY DiscoveryAssumption DEF DiscoveryAssumption
<1>5. QED
  BY <1>1, <1>2, <1>3, <1>4

\* What follows the entry's name is the same if the whole is.
LEMMA SameEnd ==
  ASSUME NEW s \in Seq(STRING), NEW t \in Seq(STRING), EntryName \o s = EntryName \o t
  PROVE  s = t
<1>1. EntryName \in Seq(STRING)
  BY NamesAre
<1>2. QED
  BY <1>1, JoinedAlike

\* What is read of a member is a member that was found.
LEMMA FoundAsType ==
  ASSUME DiscoveryTypeOK, NEW m \in Members, dcs[m] # Gone, NEW name \in Seq(STRING)
  PROVE  /\ FoundAs(m, name) \in Found
         /\ FoundAs(m, name).member = m /\ FoundAs(m, name).Name = name
  BY DEF DiscoveryTypeOK, FoundAs, Found

\* A DCS answers with members, their roles, and their names.
LEMMA AnswersAreFound ==
  ASSUME DiscoveryTypeOK, ByNamespace => DcsType = "etcd", NEW answer \in Answers
  PROVE  answer \subseteq Found /\ \A f \in answer : Told(f)
<1>1. ASSUME ~ByNamespace, NEW S, S \subseteq MembersOf(TheScope), answer = Readable(S)
      PROVE  answer \subseteq Found /\ \A f \in answer : Told(f)
  <2> SUFFICES ASSUME NEW f \in answer PROVE f \in Found /\ Told(f)
    OBVIOUS
  <2>1. PICK m \in Present(S) : f = FoundAs(m, NameOf[m])
    BY <1>1 DEF Readable
  <2>2. m \in Members /\ dcs[m] # Gone /\ ScopeOf[m] = TheScope
    BY <1>1, <2>1 DEF Present, MembersOf
  <2>3. QED
    BY <1>1, <2>1, <2>2, NamesAre, FoundAsType DEF Told, NameFor
<1>2. ASSUME NEW s \in Scopes, ~ByNamespace => s = TheScope,
             NEW f \in extractEtcdScopeMembers(s, ByNamespace)
      PROVE  f \in Found /\ Told(f)
  <2>1. PICK m \in Present(MembersOf(s)) :
          f = FoundAs(m, IF ByNamespace THEN s \o NameOf[m] ELSE NameOf[m])
    BY <1>2 DEF extractEtcdScopeMembers
  <2>2. m \in Members /\ dcs[m] # Gone /\ ScopeOf[m] = s
    BY <2>1 DEF Present, MembersOf
  <2>3. f = FoundAs(m, NameFor(m))
    BY <2>1, <2>2 DEF NameFor
  <2>4. f \in Found /\ f.member = m /\ f.Name = NameFor(m)
    BY <2>2, <2>3, NamesAre, FoundAsType
  <2>5. QED
    BY <1>2, <2>2, <2>4 DEF Told
<1>3. TheScope \in Scopes
  BY DiscoveryAssumption DEF DiscoveryAssumption
<1>4. CASE DcsType = "etcd"
  <2>1. answer \in EtcdGetClusterMembers
    BY <1>4 DEF Answers
  <2>2. CASE ByNamespace
    <3>1. \A t \in Scopes :
            extractEtcdScopeMembers(t, TRUE) = extractEtcdScopeMembers(t, ByNamespace)
      BY <2>2 DEF extractEtcdScopeMembers
    <3>2. PICK S \in SUBSET Scopes : answer = UNION {extractEtcdScopeMembers(t, TRUE) : t \in S}
      BY <2>1, <2>2 DEF EtcdGetClusterMembers
    <3>3. QED
      BY <1>2, <2>2, <3>1, <3>2
  <2>3. CASE ~ByNamespace
    <3>1. answer = extractEtcdScopeMembers(TheScope, FALSE)
      BY <2>1, <2>3 DEF EtcdGetClusterMembers
    <3>2. answer = extractEtcdScopeMembers(TheScope, ByNamespace)
      BY <2>3, <3>1 DEF extractEtcdScopeMembers
    <3>3. QED
      BY <1>2, <1>3, <3>2
  <2>4. QED
    BY <2>2, <2>3
<1>5. CASE DcsType = "zookeeper"
  <2>1. answer \in ZookeeperGetClusterMembers
    BY <1>5 DEF Answers
  <2>2. PICK S \in SUBSET MembersOf(TheScope) : answer = Readable(S)
    BY <2>1 DEF ZookeeperGetClusterMembers
  <2>3. QED
    BY <1>1, <1>5, <2>2
<1>6. CASE DcsType = "consul"
  <2>1. answer \in ConsulGetClusterMembers
    BY <1>6 DEF Answers
  <2>2. answer = Readable(MembersOf(TheScope))
    BY <2>1 DEF ConsulGetClusterMembers
  <2>3. QED
    BY <1>1, <1>6, <2>2
<1>7. QED
  BY <1>4, <1>5, <1>6 DEF DiscoveryTypeOK

\* A found member's databases have names.
LEMMA UniqueNameIs ==
  ASSUME NEW f \in Found
  PROVE  UniqueName(f) \in Seq(STRING)
<1>1. f.Name \in Seq(STRING) /\ f.member \in Members
  BY DEF Found
<1>2. EntryName \o f.Name \in Seq(STRING)
  BY <1>1, NamesAre, ConcatProperties
<1>3. QED
  BY <1>1, <1>2, NamesAre DEF UniqueName

\* What a member stands for are databases, and its own.
LEMMA DatabasesOfType ==
  ASSUME DiscoveryTypeOK, NEW f \in Found, OnlyIfMaster => f.role = "master"
  PROVE  /\ DatabasesOf(f) \subseteq Databases
         /\ \A x \in DatabasesOf(f) : IsOf(x, f)
         /\ hasDBName => DatabasesOf(f) = {NamedDatabase(f)}
<1>1. UniqueName(f) \in Seq(STRING) /\ f.member \in Members /\ datnames \subseteq Datnames
  BY UniqueNameIs DEF Found, DiscoveryTypeOK
<1>2. CASE hasDBName
  <2>1. DatabasesOf(f) = {NamedDatabase(f)}
    BY <1>2 DEF DatabasesOf, NamedDatabase
  <2>2. NamedDatabase(f) \in Databases /\ IsOf(NamedDatabase(f), f)
    BY <1>1, <1>2 DEF NamedDatabase, Databases, IsOf
  <2>3. QED
    BY <2>1, <2>2
<1>3. CASE ~hasDBName
  <2> SUFFICES ASSUME NEW x \in DatabasesOf(f) PROVE x \in Databases /\ IsOf(x, f)
    BY <1>3
  <2>1. PICK d \in datnames :
          x = [DBUniqueName |-> UniqueName(f) \o d, host |-> f.member, datname |-> d]
    BY <1>3 DEF DatabasesOf
  <2>2. d \in Datnames /\ UniqueName(f) \o d \in Seq(STRING)
    BY <1>1, <2>1, NamesAre
  <2>3. QED
    BY <1>1, <1>3, <2>1, <2>2 DEF Databases, IsOf
<1>4. QED
  BY <1>2, <1>3

\* The invariant holds at the beginning.
LEMMA DiscoveryInitInv == DiscoveryInit => DInv
<1> SUFFICES ASSUME DiscoveryInit PROVE DInv
  OBVIOUS
<1> USE DEF DiscoveryInit
<1>1. hasDBName \in BOOLEAN /\ (hasDBName => FromPatroni)
  <2>1. hasDBName \in BOOLEAN
    BY Zenon
  <2>2. hasDBName => DBType = "patroni"
    OBVIOUS
  <2>3. QED
    BY <2>1, <2>2 DEF FromPatroni
<1>2. DiscoveryTypeOK
  <2>1. /\ DBType \in DBTypes /\ DcsType \in {"etcd", "zookeeper", "consul"}
        /\ dcs \in [Members -> Roles \cup {Gone}]
        /\ up \subseteq Members /\ datnames \subseteq Datnames
        /\ lastFound \subseteq Found /\ cm \subseteq Found
        /\ md \subseteq Databases /\ monitored \subseteq Databases
        /\ (~known => lastFound = {})
    BY DiscoveryAssumption DEF DiscoveryAssumption
  <2>2. changes \in 0 .. MaxChanges
    BY DiscoveryAssumption DEF DiscoveryAssumption
  <2>3. /\ OnlyIfMaster \in BOOLEAN /\ dcsUp \in BOOLEAN /\ known \in BOOLEAN
        /\ resolving \in BOOLEAN /\ failed \in BOOLEAN
    OBVIOUS
  <2>4. QED
    BY <1>1, <2>1, <2>2, <2>3, Zenon DEF DiscoveryTypeOK
<1>3. NamedDatabases({}) = {}
  BY DEF NamedDatabases
<1>4. QED
  BY <1>1, <1>2, <1>3 DEF DInv, MemoryInv
-----------------------------------------------------------------------------
(* The steps.                                                              *)

\* What the memory stands for does not depend on what happens outside.
LEMMA OriginIsFixed ==
  ASSUME UNCHANGED <<entryVars, lastFound>>
  PROVE  /\ \A x : ComesFromEntry(x)' <=> ComesFromEntry(x)
         /\ \A S : NamedDatabases(S)' = NamedDatabases(S)
         /\ \A f : Told(f)' <=> Told(f)
         /\ FromPatroni' <=> FromPatroni
         /\ ByNamespace' <=> ByNamespace
         /\ DcsType' = DcsType /\ hasDBName' = hasDBName
<1>1. /\ DBType' = DBType /\ OnlyIfMaster' = OnlyIfMaster /\ hasDBName' = hasDBName
      /\ lastFound' = lastFound /\ DcsType' = DcsType
  BY DEF entryVars
<1>2. /\ \A f : UniqueName(f)' = UniqueName(f)
      /\ \A f : Wanted(f)' <=> Wanted(f)
      /\ FromPatroni' <=> FromPatroni
      /\ ByNamespace' <=> ByNamespace
  BY <1>1 DEF UniqueName, ByNamespace, FromPatroni, Wanted
<1>3. \A S : NamedDatabases(S)' = NamedDatabases(S)
  BY <1>2 DEF NamedDatabases, NamedDatabase
<1>4. \A f : Told(f)' <=> Told(f)
  BY <1>2 DEF Told, NameFor
<1>5. \A x : ComesFromEntry(x)' <=> ComesFromEntry(x)
  BY <1>1, <1>2 DEF ComesFromEntry, IsOf
<1>6. QED
  BY <1>1, <1>2, <1>3, <1>4, <1>5

\* A round begins with nothing resolved; it may have a new answer.
LEMMA FindInv ==
  ASSUME DInv, FindNoDcs \/ \E answer \in Answers : FindMembers(answer)
  PROVE  DInv'
<1> USE DEF DInv, BeginResolving
<1>1. CASE FindNoDcs
  <2> USE <1>1 DEF FindNoDcs
  <2>1. DiscoveryTypeOK'
    BY NamesAre DEF DiscoveryTypeOK, entryVars, worldVars
  <2>2. /\ cm' = lastFound /\ UNCHANGED <<entryVars, lastFound, monitored>>
        /\ resolving' /\ md' = {} /\ FromPatroni
        /\ hasDBName => monitored = NamedDatabases(lastFound)
    BY DEF DiscoveryTypeOK, MemoryInv
  <2>3. NamedDatabases({}) = {} /\ lastFound \ lastFound = {}
    BY DEF NamedDatabases
  <2>4. MemoryInv'
    BY <2>2, <2>3, OriginIsFixed DEF MemoryInv
  <2>5. QED
    BY <2>1, <2>4
<1>2. ASSUME NEW answer \in Answers, FindMembers(answer)
      PROVE  DInv'
  <2> USE <1>2 DEF FindMembers
  <2>1. answer \subseteq Found /\ \A f \in answer : Told(f)
    BY AnswersAreFound DEF MemoryInv
  <2>2. changes' \in 0 .. MaxChanges
    BY DiscoveryAssumption DEF DiscoveryAssumption, DiscoveryTypeOK
  <2>3. DiscoveryTypeOK'
    BY <2>1, <2>2, NamesAre DEF DiscoveryTypeOK, entryVars
  <2>4. /\ DBType' = DBType /\ hasDBName' = hasDBName /\ DcsType' = DcsType
        /\ lastFound' = answer /\ cm' = answer /\ md' = {} /\ resolving' /\ ~failed'
        /\ FromPatroni
    BY DEF entryVars
  <2>5. /\ FromPatroni' /\ (ByNamespace' <=> ByNamespace)
        /\ \A f : Told(f)' <=> Told(f)
    BY <2>4 DEF FromPatroni, ByNamespace, Told, NameFor
  <2>6. NamedDatabases({})' = {} /\ answer \ answer = {}
    BY DEF NamedDatabases
  <2>7. MemoryInv'
    BY <2>1, <2>4, <2>5, <2>6 DEF MemoryInv
  <2>8. QED
    BY <2>3, <2>7
<1>3. QED
  BY <1>1, <1>2

\* A member is processed: its databases join those of the members before it.
LEMMA ProcessInv ==
  ASSUME DInv, NEW f \in cm, ProcessMember(f)
  PROVE  DInv'
<1> USE DEF DInv, ProcessMember
<1>1. /\ UNCHANGED <<entryVars, lastFound>> /\ monitored' = monitored
      /\ resolving /\ resolving' = resolving /\ failed' = failed
      /\ cm' = cm \ {f} /\ f \in Found
      /\ md' = IF Wanted(f) THEN md \cup DatabasesOf(f) ELSE md
  BY DEF Wanted, DiscoveryTypeOK
<1>2. Wanted(f) => DatabasesOf(f) \subseteq Databases
  BY <1>1, DatabasesOfType DEF Wanted
<1>3. DiscoveryTypeOK'
  BY <1>1, <1>2 DEF DiscoveryTypeOK, entryVars, worldVars
<1>4. FromPatroni /\ f \in lastFound
  BY <1>1 DEF MemoryInv
<1>5. ASSUME NEW x \in md' PROVE ComesFromEntry(x)
  <2>1. CASE x \in md
    BY <1>1, <2>1 DEF MemoryInv
  <2>2. CASE Wanted(f) /\ x \in DatabasesOf(f)
    <3>1. IsOf(x, f)
      BY <1>1, <2>2, DatabasesOfType DEF Wanted
    <3>2. QED
      BY <1>4, <3>1 DEF ComesFromEntry
  <2>3. QED
    BY <1>1, <2>1, <2>2
<1>6. ASSUME hasDBName PROVE md' = NamedDatabases(lastFound \ cm')
  <2>1. md = NamedDatabases(lastFound \ cm)
    BY <1>1, <1>6 DEF MemoryInv
  <2>2. lastFound \ cm' = (lastFound \ cm) \cup {f}
    BY <1>1, <1>4 DEF MemoryInv
  <2>3. NamedDatabases((lastFound \ cm) \cup {f}) =
          NamedDatabases(lastFound \ cm) \cup (IF Wanted(f) THEN {NamedDatabase(f)} ELSE {})
    BY DEF NamedDatabases
  <2>4. Wanted(f) => DatabasesOf(f) = {NamedDatabase(f)}
    BY <1>1, <1>6, DatabasesOfType DEF Wanted
  <2>5. QED
    BY <1>1, <2>1, <2>2, <2>3, <2>4
<1>7. cm' \subseteq lastFound
  BY <1>1, <1>4 DEF MemoryInv
<1>8. MemoryInv'
  BY <1>1, <1>4, <1>5, <1>6, <1>7, OriginIsFixed DEF MemoryInv
<1>9. QED
  BY <1>3, <1>8

\* The one server's databases are all on it.
LEMMA ServerInv ==
  ASSUME DInv, ResolveDatabasesFromConfigEntry
  PROVE  DInv'
<1> USE DEF DInv, ResolveDatabasesFromConfigEntry
<1>1. md' \subseteq Databases
  <2>1. CASE Server \in up
    <3>1. Server \in Members /\ datnames \subseteq Datnames /\ md' = ServerDatabases
      BY <2>1 DEF DiscoveryTypeOK
    <3>2. \A d \in datnames : d \in Datnames /\ EntryName \o d \in Seq(STRING)
      BY <3>1, NamesAre
    <3>3. ASSUME NEW d \in datnames
          PROVE  [DBUniqueName |-> EntryName \o d, host |-> Server, datname |-> d] \in Databases
      BY <3>1, <3>2 DEF Databases
    <3>4. QED
      BY <3>1, <3>3 DEF ServerDatabases
  <2>2. CASE Server \notin up
    BY <2>2
  <2>3. QED
    BY <2>1, <2>2
<1>2. DiscoveryTypeOK'
  BY <1>1 DEF DiscoveryTypeOK, entryVars, worldVars
<1>3. \A x \in md' : x.host = Server /\ x.DBUniqueName = EntryName \o x.datname
  BY DEF ServerDatabases
<1>4. ~FromPatroni /\ ~hasDBName /\ cm = {} /\ UNCHANGED <<entryVars, lastFound, cm>> /\ resolving'
  BY DEF MemoryInv
<1>5. \A x \in md' : ComesFromEntry(x)
  BY <1>3, <1>4 DEF ComesFromEntry
<1>6. hasDBName' = hasDBName
  BY <1>4 DEF entryVars
<1>7. MemoryInv'
  BY <1>4, <1>5, <1>6, OriginIsFixed DEF MemoryInv
<1>8. QED
  BY <1>2, <1>7

\* A round ends, and what happens outside, leave the memory alone.
LEMMA EndInv ==
  ASSUME DInv, EndResolving
  PROVE  DInv'
<1> USE DEF DInv, EndResolving
<1>1. DiscoveryTypeOK'
  BY DEF DiscoveryTypeOK, entryVars, worldVars
<1>2. lastFound \ cm = lastFound /\ UNCHANGED <<entryVars, lastFound, cm>>
      /\ hasDBName' = hasDBName
  BY DEF entryVars
<1>3. MemoryInv'
  BY <1>2, OriginIsFixed DEF MemoryInv
<1>4. QED
  BY <1>1, <1>3

\* Nor does anything that happens outside.
LEMMA WorldInv ==
  ASSUME DInv,
         \/ MemberChanges \/ DcsGoesOrReturns \/ ServerGoesOrReturns \/ DatabaseComesOrGoes
         \/ UNCHANGED discoveryVars
  PROVE  DInv'
<1> USE DEF DInv, Happens, entryVars, roundVars
<1>1. UNCHANGED <<entryVars, roundVars>>
  BY DEF MemberChanges, DcsGoesOrReturns, ServerGoesOrReturns, DatabaseComesOrGoes, discoveryVars
<1>2. changes' \in 0 .. MaxChanges
  BY DiscoveryAssumption DEF DiscoveryAssumption, DiscoveryTypeOK, MemberChanges,
     DcsGoesOrReturns, ServerGoesOrReturns, DatabaseComesOrGoes, discoveryVars, worldVars
<1>3. /\ dcs' \in [Members -> Roles \cup {Gone}] /\ up' \subseteq Members
      /\ datnames' \subseteq Datnames
  BY DEF DiscoveryTypeOK, MemberChanges, DcsGoesOrReturns, ServerGoesOrReturns,
     DatabaseComesOrGoes, discoveryVars, worldVars
<1>4. dcsUp' \in BOOLEAN
  BY Zenon DEF DiscoveryTypeOK, MemberChanges, DcsGoesOrReturns, ServerGoesOrReturns,
     DatabaseComesOrGoes, discoveryVars, worldVars
<1>5. DiscoveryTypeOK'
  BY <1>1, <1>2, <1>3, <1>4 DEF DiscoveryTypeOK
<1>6. MemoryInv'
  BY <1>1, OriginIsFixed DEF MemoryInv
<1>7. QED
  BY <1>5, <1>6

\* Every step preserves the invariant.
LEMMA DiscoveryNextInv == DInv /\ [DiscoveryNext]_discoveryVars => DInv'
  BY FindInv, ProcessInv, ServerInv, EndInv, WorldInv DEF DiscoveryNext, Resolve

\* The invariant of ResolveDatabases.
THEOREM DiscoveryInvariance == DiscoverySpec => []DInv
<1>1. QED
  BY DiscoveryInitInv, DiscoveryNextInv, PTL DEF DiscoverySpec

\* Whatever a DCS or a server answers, or does not, what is resolved are databases of
\* members that exist, under names made of what there is.
THEOREM DiscoveryTypesOK == DiscoverySpec => []DiscoveryTypeOK
<1>1. DInv => DiscoveryTypeOK
  BY DEF DInv
<1>2. QED
  BY <1>1, DiscoveryInvariance, PTL

\* Found members whose names have as many parts, cluster and all, are the same if the
\* names are.
LEMMA ToldApart ==
  ASSUME NEW f \in Found, NEW g \in Found, Told(f), Told(g),
         AlikeNamed(f.member, g.member)
  PROVE  /\ Len(f.Name) = Len(g.Name)
         /\ f.Name = g.Name => f.member = g.member
<1>1. /\ f.member \in Members /\ g.member \in Members
      /\ Len(ScopeOf[f.member]) = Len(ScopeOf[g.member])
      /\ Len(NameOf[f.member]) = Len(NameOf[g.member])
      /\ ScopeOf[f.member] \in Seq(STRING) /\ NameOf[f.member] \in Seq(STRING)
      /\ ScopeOf[g.member] \in Seq(STRING) /\ NameOf[g.member] \in Seq(STRING)
  BY NamesAre DEF Found, AlikeNamed
<1>2. f.Name = NameFor(f.member) /\ g.Name = NameFor(g.member)
  BY DEF Told
<1>3. ScopeOf[f.member] = ScopeOf[g.member] /\ NameOf[f.member] = NameOf[g.member]
        => f.member = g.member
  BY <1>1, DiscoveryAssumption DEF DiscoveryAssumption
<1>4. CASE ByNamespace
  <2>1. /\ f.Name = ScopeOf[f.member] \o NameOf[f.member]
        /\ g.Name = ScopeOf[g.member] \o NameOf[g.member]
    BY <1>2, <1>4 DEF NameFor
  <2> DEFINE s == ScopeOf[f.member]
             t == NameOf[f.member]
             u == ScopeOf[g.member]
             v == NameOf[g.member]
  <2>2. /\ s \in Seq(STRING) /\ t \in Seq(STRING) /\ u \in Seq(STRING) /\ v \in Seq(STRING)
        /\ Len(s) = Len(u) /\ Len(t) = Len(v)
        /\ f.Name = s \o t /\ g.Name = u \o v
        /\ s = u /\ t = v => f.member = g.member
    BY <1>1, <1>3, <2>1
  <2> HIDE DEF s, t, u, v
  <2>3. Len(s \o t) = Len(s) + Len(t) /\ Len(u \o v) = Len(u) + Len(v)
    BY <2>2, ConcatProperties
  <2>4. s \o t = u \o v => s = u /\ t = v
    BY <2>2, JoinedAlike
  <2>5. QED
    BY <2>2, <2>3, <2>4
<1>5. CASE ~ByNamespace
  <2>1. f.Name = NameOf[f.member] /\ g.Name = NameOf[g.member]
    BY <1>2, <1>5 DEF NameFor
  <2>2. ScopeOf[f.member] = ScopeOf[g.member]
    BY <1>5 DEF Told
  <2>3. QED
    BY <1>1, <1>3, <2>1, <2>2
<1>6. QED
  BY <1>4, <1>5

\* What is monitored has a name of its own, told from the others by members' names, by
\* clusters' names, or not at all.
LEMMA NamesApart ==
  ASSUME DInv, ~resolving, NEW x \in monitored, NEW y \in monitored,
         x.DBUniqueName = y.DBUniqueName, AlikeNamed(x.host, y.host)
  PROVE  \/ x = y
         \/ /\ OnlyIfMaster
            /\ \A h \in {x.host, y.host} : \E f \in lastFound : f.member = h /\ f.role = "master"
            /\ ByNamespace => ScopeOf[x.host] = ScopeOf[y.host]
<1>1. /\ x \in Databases /\ y \in Databases /\ ComesFromEntry(x) /\ ComesFromEntry(y)
      /\ \A f \in lastFound : f \in Found /\ Told(f)
  BY DEF DInv, MemoryInv, DiscoveryTypeOK
<1>2. /\ x.datname \in Seq(STRING) /\ y.datname \in Seq(STRING)
      /\ x.host \in Members /\ y.host \in Members
      /\ x.host = y.host /\ x.datname = y.datname => x = y
  <2>1. \A d \in Datnames \cup {TheDatabase} : d \in Seq(STRING)
    BY NamesAre
  <2>2. x.datname \in Datnames \cup {TheDatabase} /\ y.datname \in Datnames \cup {TheDatabase}
    BY <1>1 DEF Databases
  <2>3. x.host \in Members /\ y.host \in Members
    BY <1>1 DEF Databases
  <2>4. x.host = y.host /\ x.datname = y.datname => x = y
    BY <1>1 DEF Databases
  <2>5. QED
    BY <2>1, <2>2, <2>3, <2>4
<1>3. CASE ~FromPatroni
  <2>1. /\ x.host = Server /\ x.DBUniqueName = EntryName \o x.datname
        /\ y.host = Server /\ y.DBUniqueName = EntryName \o y.datname
    BY <1>1, <1>3 DEF ComesFromEntry
  <2>2. x.datname = y.datname
    BY <1>2, <2>1, SameEnd
  <2>3. QED
    BY <1>2, <2>1, <2>2
<1>4. CASE FromPatroni
  <2>1. PICK f \in lastFound : IsOf(x, f)
    BY <1>1, <1>4 DEF ComesFromEntry
  <2>2. PICK g \in lastFound : IsOf(y, g)
    BY <1>1, <1>4 DEF ComesFromEntry
  <2>3. /\ f \in Found /\ Told(f) /\ f.member = x.host /\ f.Name \in Seq(STRING)
        /\ g \in Found /\ Told(g) /\ g.member = y.host /\ g.Name \in Seq(STRING)
        /\ UniqueName(f) \in Seq(STRING) /\ UniqueName(g) \in Seq(STRING)
    BY <1>1, <2>1, <2>2, UniqueNameIs DEF IsOf, Found
  \* The members' parts of the names are the same, if they are of one length.
  <2>4. Len(UniqueName(f)) = Len(UniqueName(g)) =>
          UniqueName(f) = UniqueName(g) /\ x.datname = y.datname
    <3>1. CASE hasDBName
      BY <2>1, <2>2, <3>1 DEF IsOf
    <3>2. CASE ~hasDBName
      <4>1. UniqueName(f) \o x.datname = UniqueName(g) \o y.datname
        BY <2>1, <2>2, <3>2 DEF IsOf
      <4>2. QED
        BY <1>2, <2>3, <4>1, JoinedAlike
    <3>3. QED
      BY <3>1, <3>2
  <2>5. CASE ~OnlyIfMaster
    <3>1. UniqueName(f) = EntryName \o f.Name /\ UniqueName(g) = EntryName \o g.Name
      BY <2>5 DEF UniqueName
    <3>2. Len(f.Name) = Len(g.Name)
      BY <2>3, ToldApart
    <3>3. Len(UniqueName(f)) = Len(UniqueName(g))
      <4>1. \A s \in Seq(STRING) : Len(EntryName \o s) = Len(EntryName) + Len(s)
        BY NamesAre, ConcatProperties
      <4>2. QED
        BY <2>3, <3>1, <3>2, <4>1
    <3>4. f.Name = g.Name
      <4>1. EntryName \o f.Name = EntryName \o g.Name
        BY <2>4, <3>1, <3>3
      <4>2. f.Name \in Seq(STRING) /\ g.Name \in Seq(STRING)
        BY <2>3
      <4>3. QED
        BY <4>1, <4>2, SameEnd
    <3>5. QED
      BY <1>2, <2>3, <2>4, <3>3, <3>4, ToldApart
  <2>6. CASE OnlyIfMaster
    <3>1. f.role = "master" /\ g.role = "master"
      BY <2>1, <2>2, <2>6 DEF IsOf
    <3>2. ASSUME ByNamespace PROVE ScopeOf[x.host] = ScopeOf[y.host]
      <4>1. /\ UniqueName(f) = EntryName \o ScopeOf[x.host]
            /\ UniqueName(g) = EntryName \o ScopeOf[y.host]
        BY <2>3, <2>6, <3>2 DEF UniqueName
      <4>2. /\ ScopeOf[x.host] \in Seq(STRING) /\ ScopeOf[y.host] \in Seq(STRING)
            /\ Len(ScopeOf[x.host]) = Len(ScopeOf[y.host])
        BY <1>2, NamesAre DEF AlikeNamed
      <4>3. Len(UniqueName(f)) = Len(UniqueName(g))
        <5>1. \A s \in Seq(STRING) : Len(EntryName \o s) = Len(EntryName) + Len(s)
          BY NamesAre, ConcatProperties
        <5>2. QED
          BY <4>1, <4>2, <5>1
      <4>4. EntryName \o ScopeOf[x.host] = EntryName \o ScopeOf[y.host]
        BY <2>4, <4>1, <4>3
      <4>5. QED
        BY <4>2, <4>4, SameEnd
    <3>3. QED
      BY <2>3, <2>6, <3>1, <3>2
  <2>7. QED
    BY <2>5, <2>6
<1>5. QED
  BY <1>3, <1>4

\* For any members and clusters, under any names, two databases that are monitored have
\* one DBUniqueName only if two members of one cluster claimed in one answer to be its
\* master, or if their parts have different numbers of "_".
THEOREM NamesAreTheirOwn == DiscoverySpec => []NamesAreUnique
<1>1. DInv => NamesAreUnique
  BY NamesApart DEF NamesAreUnique
<1>2. QED
  BY <1>1, DiscoveryInvariance, PTL

\* A DCS that cannot be read changes nothing of an entry that names its database: what the
\* round resolves from the memory is what is monitored.
THEOREM OutagesChangeNothing == DiscoverySpec => OutageChangesNothing
<1>1. DInv /\ [DiscoveryNext]_discoveryVars =>
        [EndResolving /\ failed /\ hasDBName => monitored' = monitored]_discoveryVars
  <2> SUFFICES ASSUME DInv, EndResolving, failed, hasDBName
               PROVE  monitored' = monitored
    OBVIOUS
  <2>1. resolving /\ cm = {} /\ monitored' = md
    BY DEF EndResolving
  <2>2. md = NamedDatabases(lastFound) /\ monitored = NamedDatabases(lastFound)
    BY <2>1 DEF DInv, MemoryInv
  <2>3. QED
    BY <2>1, <2>2
<1>2. QED
  BY <1>1, DiscoveryInvariance, PTL DEF DiscoverySpec, OutageChangesNothing

-----------------------------------------------------------------------------
(* The Prometheus cache.                                                   *)

\* What always holds of it.
PInv == PromTypeOK /\ RemovedLeavesNothing /\ RowsHaveAPlace

\* What is held or served: rows, or nothing.
HeldOrNot == [asked : PromMetrics, msg : Messages] \cup {Nothing}

\* What is in the cache has the right name and a map around it.
Placed(c, i) ==
  /\ c \in [PromMetrics -> Messages \cup {NoRows}]
  /\ i \in BOOLEAN
  /\ \A n \in PromMetrics : c[n] # NoRows => c[n].name = n /\ i

\* No message is the record that stands for no rows.
LEMMA NoRowsIsNoMessage ==
  /\ NoRows \notin Messages
  /\ TooOld \in Nat
  /\ \A m \in PromMetrics : StorageName[m] \in PromMetrics
  BY PromAssumption DEF PromAssumption, NoRows, Messages, TooOld

\* Rows that grow older stay under their name, and no rows stay no rows.
LEMMA OlderIs ==
  /\ \A msg \in Messages : Older(msg) \in Messages /\ Older(msg).name = msg.name
  /\ Older(NoRows) = NoRows
<1>1. ASSUME NEW msg \in Messages PROVE Older(msg) \in Messages /\ Older(msg).name = msg.name
  <2> DEFINE age == IF msg.metric \in Stamped /\ msg.age < TooOld THEN msg.age + 1 ELSE msg.age
  <2>1. Older(msg) = [metric |-> msg.metric, name |-> msg.name, age |-> age]
    BY DEF Older, Messages
  <2>2. age \in 0 .. TooOld
    BY NoRowsIsNoMessage DEF Messages
  <2>3. QED
    BY <2>1, <2>2 DEF Messages
<1>2. Older(NoRows) = NoRows
  BY PromAssumption DEF PromAssumption, Older, NoRows
<1>3. QED
  BY <1>1, <1>2

\* Rows are stored under their name.
LEMMA AddPlaced ==
  ASSUME Placed(cache, initialized), NEW msg \in Messages, PromAsyncCacheAddMetricData(msg)
  PROVE  Placed(cache', initialized')
  BY DEF Placed, PromAsyncCacheAddMetricData, Messages

\* Purging does not misplace rows.
LEMMA PurgePlaced ==
  ASSUME Placed(cache, initialized), NEW name \in PromMetrics, PurgeMetric(name)
  PROVE  Placed(cache', initialized')
  BY DEF Placed, PurgeMetric

\* Types, part by part: what a step may rely on and has to keep.
PromParts ==
  /\ configured \in Configurations /\ monitored_db_cache \cup undefined \subseteq PromMetrics
  /\ round \in {"sleep", "start", "stop"} /\ mainLoopInitialized \in BOOLEAN
  /\ gatherer \in [PromMetrics -> {"none", "fetch", "wait"}] /\ stop \subseteq PromMetrics
  /\ persist_ch \in Seq(Messages) /\ Len(persist_ch) <= ChannelCapacity
  /\ Placed(cache, initialized)
  /\ scrape \subseteq PromMetrics
  /\ held \in HeldOrNot /\ served \in HeldOrNot

LEMMA PromTypesAreParts == PromTypeOK <=> PromParts
  BY DEF PromTypeOK, PromParts, Placed, HeldOrNot

\* The invariant holds at the beginning.
LEMMA PromInitInv == PromInit => PInv
<1> SUFFICES ASSUME PromInit PROVE PInv
  OBVIOUS
<1> USE PromAssumption DEF PromInit, PromAssumption
<1>1. Placed(cache, initialized)
  BY DEF Placed
<1>2. persist_ch \in Seq(Messages) /\ Len(persist_ch) <= ChannelCapacity
  OBVIOUS
<1>3. PromParts
  BY <1>1, <1>2 DEF PromParts, HeldOrNot
<1>4. RemovedLeavesNothing /\ RowsHaveAPlace
  BY DEF RemovedLeavesNothing, RowsHaveAPlace, Running
<1>5. QED
  BY <1>3, <1>4, PromTypesAreParts DEF PInv

-----------------------------------------------------------------------------
(* The steps.                                                              *)

\* The main loop starts gatherers after it has made a place for their rows, and purges
\* the place only when none is left.
LEMMA MainLoopInv ==
  ASSUME PromParts, RemovedLeavesNothing, RowsHaveAPlace, MainLoop, served' = Nothing
  PROVE  PromParts' /\ RemovedLeavesNothing' /\ RowsHaveAPlace'
<1> USE DEF PromParts, RemovedLeavesNothing, RowsHaveAPlace, Running, mainLoopVars, gathererVars,
            asyncCacheVars, scrapeVars, HeldOrNot
<1>1. CASE ReadConfig
  <2>1. configured \cup Removable \subseteq PromMetrics
    BY PromAssumption DEF PromAssumption
  <2>2. QED
    BY <1>1, <2>1 DEF ReadConfig
<1>2. CASE \E m \in PromMetrics : StartGatherer(m)
  <2>1. Placed(cache', initialized') /\ initialized'
    BY <1>2 DEF StartGatherer, PromAsyncCacheInitIfRequired, Placed
  <2>2. QED
    BY <1>2, <2>1 DEF StartGatherer
<1>3. CASE AllStarted
  BY <1>3 DEF AllStarted
<1>4. CASE \E m \in PromMetrics : StopGatherer(m)
  <2>1. Placed(cache', initialized') /\ initialized' = initialized
    BY <1>4, PurgePlaced DEF StopGatherer, PurgeMetric
  <2>2. QED
    BY <1>4, <2>1 DEF StopGatherer
<1>5. CASE CloseResourcesForRemovedMonitoredDBs
  <2>1. Placed(cache', initialized')
    BY <1>5 DEF CloseResourcesForRemovedMonitoredDBs, PurgeDatabase, Placed
  <2>2. QED
    BY <1>5, <2>1 DEF CloseResourcesForRemovedMonitoredDBs, PurgeDatabase
<1>6. CASE \E m \in PromMetrics : StopUndefined(m)
  BY <1>6 DEF StopUndefined
<1>7. QED
  BY <1>1, <1>2, <1>3, <1>4, <1>5, <1>6 DEF MainLoop

\* Gatherers and the persister do not make or purge the place; a gatherer that is woken
\* by its STOP was not counted as running before.
LEMMA GathererInv ==
  ASSUME PromParts, RemovedLeavesNothing, RowsHaveAPlace, served' = Nothing,
         Persist \/ \E m \in PromMetrics : GatherAndPersist(m)
  PROVE  PromParts' /\ RemovedLeavesNothing' /\ RowsHaveAPlace'
<1> USE DEF PromParts, RemovedLeavesNothing, RowsHaveAPlace, Running, mainLoopVars, gathererVars,
            asyncCacheVars, scrapeVars, HeldOrNot
<1>1. CASE Persist
  <2>1. Head(persist_ch) \in Messages /\ Tail(persist_ch) \in Seq(Messages)
        /\ Len(Tail(persist_ch)) <= ChannelCapacity
    BY <1>1, PromAssumption DEF Persist, PromAssumption
  <2>2. Placed(cache', initialized') /\ initialized' = initialized
    BY <1>1, <2>1, AddPlaced DEF Persist, PromAsyncCacheAddMetricData
  <2>3. QED
    BY <1>1, <2>1, <2>2 DEF Persist
<1>2. CASE \E m \in PromMetrics : FetchRows(m)
  <2>1. PICK m \in PromMetrics : FetchRows(m)
    BY <1>2
  <2>2. [metric |-> m, name |-> StorageName[m], age |-> 0] \in Messages
    BY NoRowsIsNoMessage DEF Messages
  <2>3. persist_ch' \in Seq(Messages) /\ Len(persist_ch') <= ChannelCapacity
    BY <2>1, <2>2, PromAssumption DEF FetchRows, PromAssumption
  <2>4. QED
    BY <2>1, <2>3 DEF FetchRows, Fetch
<1>3. CASE \E m \in PromMetrics : FetchNoRows(m)
  <2>1. Placed(cache', initialized') /\ initialized' = initialized
    BY <1>3, PurgePlaced DEF FetchNoRows, PurgeMetric
  <2>2. QED
    BY <1>3, <2>1 DEF FetchNoRows, Fetch
<1>4. CASE \E m \in PromMetrics : FetchFails(m)
  BY <1>4 DEF FetchFails, Fetch
<1>5. CASE \E m \in PromMetrics : Wake(m)
  BY <1>5 DEF Wake
<1>6. QED
  BY <1>1, <1>2, <1>3, <1>4, <1>5 DEF GatherAndPersist

\* What a scrape finds is in the cache.
LEMMA FoundRowsType ==
  ASSUME PromParts, NEW m \in PromMetrics
  PROVE  FoundRows(m) \in Messages \cup {NoRows}
  BY NoRowsIsNoMessage DEF PromParts, Placed, FoundRows

\* Nor do scrapes make or purge the place.
LEMMA ScrapeInv ==
  ASSUME PromParts, RemovedLeavesNothing, RowsHaveAPlace,
         \/ /\ BeginScrape \/ DropStale \/ \E m \in PromMetrics : LookUp(m)
            /\ served' = Nothing
         \/ Serve /\ served' = held
  PROVE  PromParts' /\ RemovedLeavesNothing' /\ RowsHaveAPlace'
<1> USE DEF PromParts, RemovedLeavesNothing, RowsHaveAPlace, Running, mainLoopVars, gathererVars,
            asyncCacheVars, scrapeVars
<1>n. Nothing \in HeldOrNot
  BY DEF HeldOrNot
<1>1. CASE BeginScrape /\ served' = Nothing
  BY <1>1, <1>n DEF BeginScrape
<1>2. CASE DropStale /\ served' = Nothing
  <2>1. held.msg.name \in PromMetrics
    BY <1>2 DEF DropStale, HeldOrNot, Messages
  <2>2. Placed(cache', initialized') /\ initialized' = initialized
    BY <1>2, <2>1, PurgePlaced DEF DropStale, PurgeMetric
  <2>3. QED
    BY <1>2, <1>n, <2>2 DEF DropStale
<1>3. CASE served' = Nothing /\ \E m \in PromMetrics : LookUp(m)
  <2>1. PICK m \in PromMetrics : LookUp(m)
    BY <1>3
  <2>2. held' \in HeldOrNot
    BY <2>1, <1>n, FoundRowsType DEF LookUp, HeldOrNot
  <2>3. QED
    BY <1>3, <1>n, <2>1, <2>2 DEF LookUp
<1>4. CASE Serve /\ served' = held
  BY <1>4, <1>n DEF Serve
<1>5. QED
  BY <1>1, <1>2, <1>3, <1>4

\* Time makes rows older wherever they are, and no more.
LEMMA TimeInv ==
  ASSUME PromParts, RemovedLeavesNothing, RowsHaveAPlace, TimePasses, served' = Nothing
  PROVE  PromParts' /\ RemovedLeavesNothing' /\ RowsHaveAPlace'
<1> USE DEF TimePasses, mainLoopVars, gathererVars
<1>1. persist_ch' \in Seq(Messages) /\ Len(persist_ch') <= ChannelCapacity
  <2>1. /\ persist_ch \in Seq(Messages)
        /\ persist_ch' = [i \in 1 .. Len(persist_ch) |-> Older(persist_ch[i])]
    BY DEF PromParts
  <2>2. \A i \in 1 .. Len(persist_ch) : Older(persist_ch[i]) \in Messages
    BY <2>1, OlderIs
  <2>3. persist_ch' \in Seq(Messages) /\ Len(persist_ch') = Len(persist_ch)
    BY <2>1, <2>2
  <2>4. QED
    BY <2>3 DEF PromParts
<1>2. Placed(cache', initialized')
  <2>1. \A n \in PromMetrics :
          \/ cache[n] = NoRows /\ cache'[n] = NoRows
          \/ /\ cache[n] # NoRows /\ cache[n] \in Messages
             /\ cache'[n] \in Messages /\ cache'[n].name = cache[n].name
    BY OlderIs DEF PromParts, Placed
  <2>2. QED
    BY <2>1 DEF PromParts, Placed
<1>3. held' \in HeldOrNot
  <2>1. CASE held = Nothing
    BY <2>1, OlderIs DEF Nothing, HeldOrNot
  <2>2. CASE held \in [asked : PromMetrics, msg : Messages]
    BY <2>2, OlderIs DEF HeldOrNot
  <2>3. QED
    BY <2>1, <2>2 DEF PromParts, HeldOrNot
<1>4. QED
  BY <1>1, <1>2, <1>3 DEF PromParts, RemovedLeavesNothing, RowsHaveAPlace, Running, HeldOrNot

\* Every step preserves the invariant.
LEMMA PromNextInv == PInv /\ [PromNext]_promVars => PInv'
<1> SUFFICES ASSUME PInv, [PromNext]_promVars PROVE PInv'
  OBVIOUS
<1>1. PromParts /\ RemovedLeavesNothing /\ RowsHaveAPlace
  BY PromTypesAreParts DEF PInv
<1>2. PromParts' /\ RemovedLeavesNothing' /\ RowsHaveAPlace'
  <2>1. CASE Reconfigure /\ served' = Nothing
    <3>1. configured' \in Configurations /\ served' \in HeldOrNot
      BY <2>1 DEF Reconfigure, HeldOrNot
    <3>2. UNCHANGED <<mainLoopVars, gathererVars, persist_ch, asyncCacheVars, scrapeVars>>
      BY <2>1 DEF Reconfigure
    <3>3. QED
      BY <1>1, <3>1, <3>2
       DEF PromParts, RemovedLeavesNothing, RowsHaveAPlace, Running, mainLoopVars,
         gathererVars, asyncCacheVars, scrapeVars
  <2>2. CASE UNCHANGED promVars
    BY <1>1, <2>2 DEF promVars, PromParts, RemovedLeavesNothing, RowsHaveAPlace, Running,
       mainLoopVars, gathererVars, asyncCacheVars, scrapeVars
  <2>3. QED
    BY <1>1, <2>1, <2>2, MainLoopInv, GathererInv, ScrapeInv, TimeInv DEF PromNext, PromStep
<1>3. PromTypeOK'
  BY <1>2 DEF PromTypeOK, PromParts, Placed, HeldOrNot
<1>4. QED
  BY <1>2, <1>3 DEF PInv

-----------------------------------------------------------------------------
(* Theorems.                                                               *)

\* The invariant of promAsyncMetricCache.
THEOREM PromInvariance == PromSpec => []PInv
<1>1. QED
  BY PromInitInv, PromNextInv, PTL DEF PromSpec

\* Rows are kept under the name they are stored under, and only in a database's map.
THEOREM PromTypesOK == PromSpec => []PromTypeOK
<1>1. PInv => PromTypeOK
  BY DEF PInv
<1>2. QED
  BY <1>1, PromInvariance, PTL

\* No message that is still on its way brings a removed database back into the cache.
THEOREM RemovedStaysRemoved == PromSpec => []RemovedLeavesNothing
<1>1. PInv => RemovedLeavesNothing
  BY DEF PInv
<1>2. QED
  BY <1>1, PromInvariance, PTL

\* No purge of a database hits one whose gatherers go on.
THEOREM RunningHaveAPlace == PromSpec => []RowsHaveAPlace
<1>1. PInv => RowsHaveAPlace
  BY DEF PInv
<1>2. QED
  BY <1>1, PromInvariance, PTL

-----------------------------------------------------------------------------
(* The parts together.                                                     *)

\* A behaviour of the whole is one of each part, which moves or stays.
THEOREM ServicesImplementParts == Spec => DiscoverySpec /\ PromSpec
<1>1. Init => DiscoveryInit /\ PromInit
  BY DEF Init
<1>2. [Next]_vars => [DiscoveryNext]_discoveryVars /\ [PromNext]_promVars
  BY DEF Next, vars
<1> QED
  BY <1>1, <1>2, PTL DEF Spec, DiscoverySpec, PromSpec

\* The state keeps its types in every part.
THEOREM ServicesTypesOK == Spec => []ServicesTypeOK
<1>1. DiscoveryTypeOK /\ PromTypeOK => ServicesTypeOK
  BY DEF ServicesTypeOK
<1> QED
  BY <1>1, ServicesImplementParts, DiscoveryTypesOK, PromTypesOK, PTL

\* What holds of discovery and of the Prometheus cache alone holds of them here.
THEOREM ServicesAreSafe ==
  Spec => /\ []NamesAreUnique /\ OutageChangesNothing
          /\ []RemovedLeavesNothing /\ []RowsHaveAPlace
<1> QED
  BY ServicesImplementParts, NamesAreTheirOwn, OutagesChangeNothing, RemovedStaysRemoved,
     RunningHaveAPlace, PTL

\* The settings of the persister for Influx, Graphite and the JSON file are ones it
\* can be run with.
LEMMA PersisterSettings ==
  Influx!PersisterAssumption /\ Graphite!PersisterAssumption /\ Json!PersisterAssumption
  BY DEF Influx!PersisterAssumption, Influx!Datastores, Influx!Stores,
     Graphite!PersisterAssumption, Graphite!Datastores, Graphite!Stores,
     Json!PersisterAssumption, Json!Datastores, Json!Stores

\* Graphite and the JSON file begin alike, with one store each.
LEMMA JsonBeginsAsGraphite == Graphite!Init => Json!Init
  BY DEF Graphite!Init, Graphite!Stores, Json!Init, Json!Stores

\* A behaviour of the Influx part is one of the persister with two Influx stores.
LEMMA InfluxPart == Spec /\ part = "influx" => Influx!Spec /\ [](part = "influx")
<1>1. Init /\ part = "influx" => Influx!Init
  BY DEF Init
<1>2. part = "influx" /\ [Next]_vars => (part = "influx")' /\ [Influx!Next]_Influx!vars
  BY DEF Next, vars, persisterVars, Influx!vars, Influx!control, Influx!history
<1> QED
  BY <1>1, <1>2, PTL DEF Spec, Influx!Spec

\* One of the Graphite part is one of the persister with a Graphite store.
LEMMA GraphitePart == Spec /\ part = "graphite" => Graphite!Spec /\ [](part = "graphite")
<1>1. Init /\ part = "graphite" => Graphite!Init
  BY DEF Init
<1>2. part = "graphite" /\ [Next]_vars =>
        (part = "graphite")' /\ [Graphite!Next]_Graphite!vars
  BY DEF Next, vars, persisterVars, Graphite!vars, Graphite!control, Graphite!history
<1> QED
  BY <1>1, <1>2, PTL DEF Spec, Graphite!Spec

\* And one of the JSON part is one of the persister with the file.
LEMMA JsonPart == Spec /\ part = "json" => Json!Spec /\ [](part = "json")
<1>1. Init /\ part = "json" => Json!Init
  BY JsonBeginsAsGraphite DEF Init
<1>2. part = "json" /\ [Next]_vars => (part = "json")' /\ [Json!Next]_Json!vars
  BY DEF Next, vars, persisterVars, Json!vars, Json!control, Json!history
<1> QED
  BY <1>1, <1>2, PTL DEF Spec, Json!Spec

\* The part that is looked at stays the same.
LEMMA PartIsFixed ==
  /\ Spec /\ ~(part = "influx") => []~(part = "influx")
  /\ Spec /\ ~(part = "graphite") => []~(part = "graphite")
  /\ Spec /\ ~(part = "json") => []~(part = "json")
<1>1. /\ ~(part = "influx") /\ [Next]_vars => ~(part = "influx")'
      /\ ~(part = "graphite") /\ [Next]_vars => ~(part = "graphite")'
      /\ ~(part = "json") /\ [Next]_vars => ~(part = "json")'
  BY DEF Next, vars
<1> QED
  BY <1>1, PTL DEF Spec

\* Of two Influx stores the failures of one cost the other nothing.
THEOREM InfluxStoresAreIndependent == Spec => []StoresIndependent
<1>1. Influx!Spec => []Influx!StoresIndependent
  BY PersisterSettings, Influx!StoresAreIndependent
<1>2. /\ Influx!StoresIndependent => StoresIndependent
      /\ ~(part = "influx") => StoresIndependent
  BY DEF StoresIndependent
<1> QED
  BY <1>1, <1>2, PartIsFixed, InfluxPart, PTL

\* As long as their retry does not end the process, neither a Graphite store nor the JSON
\* file, which may take a batch in part, makes a datum vanish.
THEOREM NothingVanishesInPart == Spec => []NothingVanishes
<1> DEFINE G == part = "graphite" => Graphite!NothingVanishes
           J == part = "json" => Json!NothingVanishes
<1>1. Graphite!Spec => []Graphite!NothingVanishes
  BY PersisterSettings, Graphite!NothingEverVanishes
<1>2. Json!Spec => []Json!NothingVanishes
  BY PersisterSettings, Json!NothingEverVanishes
<1>3. /\ Graphite!NothingVanishes => G
      /\ ~(part = "graphite") => G
      /\ Json!NothingVanishes => J
      /\ ~(part = "json") => J
      /\ G /\ J => NothingVanishes
  BY DEF NothingVanishes
<1> HIDE DEF G, J
<1> QED
  BY <1>1, <1>2, <1>3, PartIsFixed, GraphitePart, JsonPart, PTL
=============================================================================
