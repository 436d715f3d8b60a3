----------------------- MODULE ChangeDetection_proofs ------------------------
(***************************************************************************)
(* Proofs about change detection, for any objects, kinds and settings and  *)
(* whatever fails.                                                         *)
(***************************************************************************)
EXTENDS ChangeDetection, FiniteSetTheorems, TLAPS

\* A privilege is there or not, in the database and in what is remembered.
PrivilegesAreGranted ==
  \A k \in Kinds, o \in Objects : db[k][o] \in Values(k) /\ host_state[k][o] \in Values(k)

CInv == ChangeTypeOK /\ PrivilegesAreGranted /\ RemembersLastLook /\ EventsTellAll

\* The names of kinds, and what an object may be.
LEMMA KindFacts ==
  /\ Kinds \subseteq {"sproc", "table", "index", "configuration", "privilege"}
  /\ Absent \notin Hashes
  /\ Granted \in Hashes
  /\ \A k \in Kinds : Values(k) \subseteq Hashes \cup {Absent}
  /\ \A k \in Kinds : Absent \in Values(k)
  /\ None \in States
  /\ \A i \in DOMAIN Order : Order[i] \in Kinds
  /\ Len(Order) \in Nat /\ DOMAIN Order = 1 .. Len(Order)
<1>1. \A i \in DOMAIN Order :
        Order[i] \in {"sproc", "table", "index", "configuration", "privilege"}
  BY ChangeAssumption DEF ChangeAssumption
<1>2. Kinds \subseteq {"sproc", "table", "index", "configuration", "privilege"}
  BY <1>1 DEF Kinds
<1>3. Granted \in Hashes
  BY ChangeAssumption DEF ChangeAssumption, Granted
<1>4. \A k \in Kinds : Values(k) \subseteq Hashes \cup {Absent} /\ Absent \in Values(k)
  BY <1>3 DEF Values
<1>5. None \in States
  BY DEF None, States
<1>6. \A i \in DOMAIN Order : Order[i] \in Kinds
  BY DEF Kinds
<1>7. Len(Order) \in Nat /\ DOMAIN Order = 1 .. Len(Order)
  BY ChangeAssumption DEF ChangeAssumption
<1>8. QED
  BY <1>2, <1>3, <1>4, <1>5, <1>6, <1>7, ChangeAssumption DEF ChangeAssumption

-----------------------------------------------------------------------------
(* What a look detects.                                                    *)

\* New and altered objects are present now, missing ones are not.
LEMMA DetectedWhere ==
  ASSUME NEW k, NEW old \in States, NEW now \in States
  PROVE  /\ New(old, now) \subseteq Present(now)
         /\ Altered(k, old, now) \subseteq Present(now)
         /\ Missing(k, old, now) \subseteq Objects \ Present(now)
         /\ Detected(k, old, now) \in Counts
<1>1. New(old, now) \subseteq Present(now) /\ Altered(k, old, now) \subseteq Present(now)
  BY DEF New, Altered
<1>2. Missing(k, old, now) \subseteq Objects \ Present(now)
  BY DEF Missing, Present
<1>3. Present(now) \subseteq Objects
  BY DEF Present
<1>4. QED
  BY <1>1, <1>2, <1>3 DEF Detected, Counts

\* The stored events turn what was remembered into what is remembered.
LEMMA ReplayIsAfter ==
  ASSUME NEW k, NEW old \in States, NEW now \in States
  PROVE  Replay(old, Detected(k, old, now), now) = After(k, old, now)
<1>1. ASSUME NEW o \in Objects
      PROVE  Replay(old, Detected(k, old, now), now)[o] = After(k, old, now)[o]
  BY DetectedWhere DEF Replay, Detected, After, Merged
<1>2. QED
  BY <1>1 DEF Replay, After

\* What is remembered has the values that the kind allows.
LEMMA AfterValues ==
  ASSUME NEW k \in Kinds, NEW old \in States, NEW now \in States,
         \A o \in Objects : old[o] \in Values(k) /\ now[o] \in Values(k)
  PROVE  /\ After(k, old, now) \in States
         /\ \A o \in Objects : After(k, old, now)[o] \in Values(k)
<1>1. \A o \in Objects : After(k, old, now)[o] \in Values(k)
  BY KindFacts DEF After, Merged
<1>2. \A o \in Objects : After(k, old, now)[o] \in Hashes \cup {Absent}
  BY <1>1, KindFacts
<1>3. After(k, old, now) = [o \in Objects |-> After(k, old, now)[o]]
  BY DEF After
<1>4. QED
  BY <1>1, <1>2, <1>3 DEF States

\* Of what is there, what is remembered is right, but for the ignored setting.
LEMMA AfterWherePresent ==
  ASSUME NEW k \in Kinds, NEW old \in States, NEW now \in States, NEW o \in Present(now),
         \A p \in Objects : old[p] \in Values(k) /\ now[p] \in Values(k),
         k = "configuration" => o \notin Ignored
  PROVE  Merged(k, old, now)[o] = now[o] /\ After(k, old, now)[o] = now[o]
<1>1. o \in Objects /\ now[o] # Absent /\ o \notin Missing(k, old, now)
  BY DetectedWhere DEF Present
<1>2. CASE old[o] = Absent
  BY <1>1, <1>2 DEF New, Present, Merged, After
<1>3. CASE old[o] # Absent /\ old[o] # now[o]
  <2>1. k # "privilege"
    BY <1>1, <1>3 DEF Values
  <2>2. o \in Altered(k, old, now)
    BY <1>1, <1>3, <2>1 DEF Altered, Present
  <2>3. QED
    BY <1>1, <2>2 DEF Merged, After
<1>4. CASE old[o] = now[o]
  BY <1>1, <1>4 DEF Merged, After
<1>5. QED
  BY <1>2, <1>3, <1>4

\* Of procedures, tables and indexes the missing ones are found although they are
\* looked for only if the numbers differ: all that is there is remembered by then, so
\* if the numbers are the same, so are the sets.
LEMMA MissingIsGone ==
  ASSUME NEW k \in Hashed, NEW old \in States, NEW now \in States,
         \A p \in Objects : old[p] \in Values(k) /\ now[p] \in Values(k)
  PROVE  Missing(k, old, now) = Present(old) \ Present(now)
<1> DEFINE merged == Merged(k, old, now)
<1>0. k \in Kinds /\ k # "configuration" /\ k # "privilege"
  BY DEF Hashed
<1>1. \A o \in Objects \ Present(now) : merged[o] = old[o]
  BY DetectedWhere DEF Merged
<1>2. \A o \in Present(now) : merged[o] = now[o]
  BY <1>0, AfterWherePresent
<1>3. Present(now) \subseteq Present(merged)
  BY <1>2 DEF Present
<1>4. Present(merged) \ Present(now) = Present(old) \ Present(now)
  BY <1>1 DEF Present
<1>5. CASE LooksForDrops(k, old, now)
  BY <1>4, <1>5 DEF Missing
<1>6. CASE ~LooksForDrops(k, old, now)
  <2>1. Cardinality(Present(merged)) = Cardinality(Present(now))
    BY <1>0, <1>6 DEF LooksForDrops
  <2>2. IsFiniteSet(Present(merged))
    BY ChangeAssumption, FS_Subset DEF Present, ChangeAssumption
  <2>3. Present(merged) = Present(now)
    BY <1>3, <2>1, <2>2, FS_Subset
  <2>4. QED
    BY <1>4, <1>6, <2>3 DEF Missing
<1>7. QED
  BY <1>5, <1>6

\* So what is remembered of them is what was seen.
LEMMA AfterIsNow ==
  ASSUME NEW k \in Hashed, NEW old \in States, NEW now \in States,
         \A p \in Objects : old[p] \in Values(k) /\ now[p] \in Values(k)
  PROVE  After(k, old, now) = now
<1>0. k \in Kinds /\ k # "configuration" /\ k # "privilege"
  BY DEF Hashed
<1>1. ASSUME NEW o \in Objects PROVE After(k, old, now)[o] = now[o]
  <2>1. CASE o \in Present(now)
    BY <1>0, <2>1, AfterWherePresent
  <2>2. CASE o \notin Present(now) /\ o \in Present(old)
    BY <2>2, MissingIsGone DEF After, Present
  <2>3. CASE o \notin Present(now) /\ o \notin Present(old)
    <3>1. Merged(k, old, now)[o] = Absent
      BY <2>3, DetectedWhere DEF Merged, Present
    <3>2. QED
      BY <2>3, <3>1 DEF After, Present
  <2>4. QED
    BY <2>1, <2>2, <2>3
<1>2. QED
  BY <1>1 DEF After, States

\* And of privileges, unless there are none.
LEMMA AfterPrivileges ==
  ASSUME "privilege" \in Kinds, NEW old \in States, NEW now \in States,
         \A p \in Objects : old[p] \in Values("privilege") /\ now[p] \in Values("privilege"),
         now # None
  PROVE  After("privilege", old, now) = now
<1>1. Present(now) # {}
  BY DEF Present, None, States
<1>2. LooksForDrops("privilege", old, now)
  BY <1>1 DEF LooksForDrops
<1>3. ASSUME NEW o \in Objects PROVE After("privilege", old, now)[o] = now[o]
  <2>1. CASE o \in Present(now)
    BY <2>1, AfterWherePresent
  <2>2. CASE o \notin Present(now) /\ Merged("privilege", old, now)[o] # Absent
    BY <1>2, <2>2 DEF After, Missing, Present
  <2>3. CASE o \notin Present(now) /\ Merged("privilege", old, now)[o] = Absent
    BY <2>3 DEF After, Present
  <2>4. QED
    BY <2>1, <2>2, <2>3
<1>4. QED
  BY <1>3 DEF After, States

\* What is reported of them is what differs.
LEMMA DetectedIsDifference ==
  ASSUME NEW k \in Hashed, NEW old \in States, NEW now \in States,
         \A p \in Objects : old[p] \in Values(k) /\ now[p] \in Values(k)
  PROVE  LET e == Detected(k, old, now)
         IN  e.created \cup e.altered \cup e.dropped = {o \in Objects : old[o] # now[o]}
<1>1. k # "configuration" /\ k # "privilege"
  BY DEF Hashed
<1>2. New(old, now) \cup Altered(k, old, now) \cup (Present(old) \ Present(now)) =
        {o \in Objects : old[o] # now[o]}
  BY <1>1 DEF New, Altered, Present
<1>3. QED
  BY <1>2, MissingIsGone DEF Detected

-----------------------------------------------------------------------------
(* The invariant.                                                          *)

\* It holds at the beginning.
LEMMA ChangeInitInv == ChangeInit => CInv
<1> SUFFICES ASSUME ChangeInit PROVE CInv
  OBVIOUS
<1> USE DEF ChangeInit
<1>1. db \in [Kinds -> States] /\ \A k \in Kinds, o \in Objects : db[k][o] \in Values(k)
  BY ChangeAssumption DEF ChangeAssumption
<1>2. /\ [k \in Kinds |-> None] \in [Kinds -> States]
      /\ [k \in Kinds |-> NoChange] \in [Kinds -> Counts]
  BY KindFacts DEF NoChange, Counts
<1>3. next \in 0 .. Len(Order) + 1 /\ alterations \in 0 .. MaxAlterations
  BY KindFacts, ChangeAssumption DEF ChangeAssumption
<1>4. ChangeTypeOK
  BY <1>1, <1>2, <1>3, Zenon DEF ChangeTypeOK
<1>5. PrivilegesAreGranted
  BY <1>1, KindFacts DEF PrivilegesAreGranted, None
<1>6. RemembersLastLook /\ EventsTellAll
  BY DEF RemembersLastLook, EventsTellAll
<1>7. QED
  BY <1>4, <1>5, <1>6 DEF CInv

\* A look that succeeds preserves it.
LEMMA LookInv ==
  ASSUME CInv, NEW k \in Kinds, Look(k)
  PROVE  CInv'
<1> DEFINE old == host_state[k]
           now == db[k]
           e == IF FirstRun(k) THEN NoChange ELSE Detected(k, old, now)
           after == IF FirstRun(k) THEN now ELSE After(k, old, now)
<1>1. /\ old \in States /\ now \in States /\ replayed[k] = old
      /\ \A o \in Objects : old[o] \in Values(k) /\ now[o] \in Values(k)
  BY DEF CInv, ChangeTypeOK, PrivilegesAreGranted, EventsTellAll
<1>2. e \in Counts
  BY <1>1, DetectedWhere DEF NoChange, Counts
<1>3. after \in States /\ \A o \in Objects : after[o] \in Values(k)
  BY <1>1, AfterValues
<1>4. /\ host_state' = [host_state EXCEPT ![k] = after]
      /\ replayed' = [replayed EXCEPT ![k] =
                         IF FirstRun(k) THEN now ELSE Replay(replayed[k], e, now)]
      /\ seen' = [seen EXCEPT ![k] = now] /\ looked' = looked \cup {k}
      /\ remembered' = remembered \cup {k}
      /\ counts' = [counts EXCEPT ![k] = e]
      /\ reported' \in {reported, reported \cup {k}}
      /\ next' = next + 1 /\ next \in DOMAIN Order
      /\ db' = db /\ alterations' = alterations /\ summary' = summary
  BY DEF Look, AtKind
<1>5. EventsTellAll'
  <2>1. (IF FirstRun(k) THEN now ELSE Replay(replayed[k], e, now)) = after
    BY <1>1, ReplayIsAfter
  <2>2. QED
    BY <1>4, <2>1 DEF CInv, EventsTellAll
<1> HIDE DEF old, now, e, after
<1>6. ChangeTypeOK'
  <2>1. next \in 1 .. Len(Order) /\ Len(Order) \in Nat
    BY <1>4, KindFacts
  <2>2. next' \in 0 .. Len(Order) + 1
    BY <1>4, <2>1
  <2>3. /\ host_state' \in [Kinds -> States] /\ replayed' \in [Kinds -> States]
    BY <1>3, <1>4, <1>5 DEF CInv, ChangeTypeOK, EventsTellAll
  <2>4. seen' \in [Kinds -> States]
    BY <1>1, <1>4 DEF CInv, ChangeTypeOK
  <2>5. counts' \in [Kinds -> Counts]
    BY <1>2, <1>4 DEF CInv, ChangeTypeOK
  <2>6. reported' \subseteq Kinds /\ looked' \subseteq remembered' /\ remembered' \subseteq Kinds
    BY <1>4 DEF CInv, ChangeTypeOK
  <2>7. QED
    BY <1>4, <2>2, <2>3, <2>4, <2>5, <2>6 DEF CInv, ChangeTypeOK
<1>7. PrivilegesAreGranted'
  BY <1>3, <1>4 DEF CInv, ChangeTypeOK, PrivilegesAreGranted
<1>8. RemembersLastLook'
  <2>1. /\ k \in Hashed => after = now
        /\ k = "privilege" => now = None \/ after = now
        /\ k = "configuration" => \A o \in Present(now) \ Ignored : after[o] = now[o]
    BY <1>1, AfterIsNow, AfterPrivileges, AfterWherePresent DEF after
  <2>2. host_state'[k] = after /\ seen'[k] = now
    BY <1>4 DEF CInv, ChangeTypeOK
  <2>3. \A j \in Kinds \ {k} : host_state'[j] = host_state[j] /\ seen'[j] = seen[j]
    BY <1>4 DEF CInv, ChangeTypeOK
  <2>4. ASSUME NEW j \in looked' PROVE RemembersLastLook!(j)'
    <3>1. CASE j = k
      BY <2>1, <2>2, <3>1 DEF Hashed
    <3>2. CASE j # k
      <4>1. j \in looked /\ j \in Kinds \ {k}
        BY <1>4, <3>2 DEF CInv, ChangeTypeOK
      <4>2. QED
        BY <2>3, <4>1 DEF CInv, RemembersLastLook
    <3>3. QED
      BY <3>1, <3>2
  <2>5. QED
    BY <2>4 DEF RemembersLastLook
<1>9. QED
  BY <1>5, <1>6, <1>7, <1>8 DEF CInv

\* So does every step.
LEMMA ChangeNextInv == CInv /\ [ChangeNext]_changeVars => CInv'
<1> SUFFICES ASSUME CInv, [ChangeNext]_changeVars PROVE CInv'
  OBVIOUS
<1>t. /\ Len(Order) \in Nat /\ DOMAIN Order = 1 .. Len(Order) /\ MaxAlterations \in Nat
      /\ alterations < MaxAlterations => alterations + 1 \in 0 .. MaxAlterations
  BY KindFacts, ChangeAssumption DEF ChangeAssumption, CInv, ChangeTypeOK
<1>1. CASE BeginPass
  <2>1. counts' \in [Kinds -> Counts] /\ next' \in 0 .. Len(Order) + 1
    BY <1>1, <1>t DEF BeginPass, NoChange, Counts
  <2>2. QED
    BY <1>1, <2>1 DEF BeginPass, memory, CInv, ChangeTypeOK, PrivilegesAreGranted,
       RemembersLastLook, EventsTellAll
<1>2. CASE EndPass
  <2>1. summary' \in BOOLEAN /\ next' \in 0 .. Len(Order) + 1
    BY <1>2, <1>t DEF EndPass
  <2>2. QED
    BY <1>2, <2>1 DEF EndPass, memory, CInv, ChangeTypeOK, PrivilegesAreGranted,
       RemembersLastLook, EventsTellAll
<1>3. CASE RestartGatherer
  <2> USE <1>3 DEF RestartGatherer
  <2>1. [k \in Kinds |-> None] \in [Kinds -> States]
    BY KindFacts
  <2>2. ChangeTypeOK'
    BY <1>t, <2>1 DEF CInv, ChangeTypeOK
  <2>3. PrivilegesAreGranted'
    BY KindFacts DEF CInv, PrivilegesAreGranted, None
  <2>4. RemembersLastLook' /\ EventsTellAll'
    BY DEF RemembersLastLook, EventsTellAll
  <2>5. QED
    BY <2>2, <2>3, <2>4 DEF CInv
<1>4. CASE \E k \in Kinds : Look(k)
  BY <1>4, LookInv
<1>5. CASE \E k \in Kinds : LookFails(k)
  <2>1. PICK k \in Kinds : LookFails(k)
    BY <1>5
  <2>2. next' \in 0 .. Len(Order) + 1
    BY <1>t, <2>1 DEF LookFails, AtKind, CInv, ChangeTypeOK
  <2>3. QED
    BY <2>1, <2>2 DEF LookFails, CInv, ChangeTypeOK, PrivilegesAreGranted, RemembersLastLook,
       EventsTellAll
<1>6. CASE \E k \in Kinds, o \in Objects : ChangeObject(k, o)
  <2>1. PICK k \in Kinds, o \in Objects : ChangeObject(k, o)
    BY <1>6
  <2>2. PICK h \in Values(k) : db' = [db EXCEPT ![k][o] = h]
    BY <2>1 DEF ChangeObject
  <2>3. db' \in [Kinds -> States]
    <3>1. [db[k] EXCEPT ![o] = h] \in States
      BY KindFacts DEF CInv, ChangeTypeOK, States
    <3>2. QED
      BY <2>2, <3>1 DEF CInv, ChangeTypeOK
  <2>4. \A j \in Kinds, p \in Objects : db'[j][p] \in Values(j)
    <3> SUFFICES ASSUME NEW j \in Kinds, NEW p \in Objects PROVE db'[j][p] \in Values(j)
      OBVIOUS
    <3>1. db[j][p] \in Values(j) /\ db \in [Kinds -> [Objects -> Hashes \cup {Absent}]]
      BY DEF CInv, ChangeTypeOK, PrivilegesAreGranted, States
    <3>2. QED
      BY <2>2, <3>1
  <2>5. QED
    BY <1>t, <2>1, <2>3, <2>4 DEF ChangeObject, memory, CInv, ChangeTypeOK, PrivilegesAreGranted,
       RemembersLastLook, EventsTellAll
<1>7. CASE UNCHANGED changeVars
  BY <1>7 DEF changeVars, memory, CInv, ChangeTypeOK, PrivilegesAreGranted, RemembersLastLook,
     EventsTellAll
<1>8. QED
  BY <1>1, <1>2, <1>3, <1>4, <1>5, <1>6, <1>7 DEF ChangeNext

-----------------------------------------------------------------------------
(* Theorems.                                                               *)

\* The invariant of CheckForPGObjectChangesAndStore.
THEOREM ChangeInvariance == ChangeSpec => []CInv
<1>1. QED
  BY ChangeInitInv, ChangeNextInv, PTL DEF ChangeSpec

\* The state of change detection has its types.
THEOREM ChangeTypesOK == ChangeSpec => []ChangeTypeOK
<1>1. CInv => ChangeTypeOK
  BY DEF CInv
<1>2. QED
  BY <1>1, ChangeInvariance, PTL

\* host_state is what the last look that succeeded saw, though deletions are looked for
\* only if numbers differ, and though looks fail and gatherers are restarted.
THEOREM LastLookRemembered == ChangeSpec => []RemembersLastLook
<1>1. CInv => RemembersLastLook
  BY DEF CInv
<1>2. QED
  BY <1>1, ChangeInvariance, PTL

\* The stored events alone, replayed, give host_state.
THEOREM EventsAreEnough == ChangeSpec => []EventsTellAll
<1>1. CInv => EventsTellAll
  BY DEF CInv
<1>2. QED
  BY <1>1, ChangeInvariance, PTL

\* Of procedures, tables and indexes exactly those are reported that differ from what
\* the last successful look saw.
THEOREM ReportsAreRight == ChangeSpec => ChangedIffReported
<1> DEFINE Right == \A k \in Hashed : Look(k) /\ k \in looked =>
              counts'[k].created \cup counts'[k].altered \cup counts'[k].dropped =
                {o \in Objects : seen[k][o] # db[k][o]}
<1>1. CInv /\ [ChangeNext]_changeVars => [Right]_changeVars
  <2> SUFFICES ASSUME CInv, NEW k \in Hashed, Look(k), k \in looked
               PROVE  counts'[k].created \cup counts'[k].altered \cup counts'[k].dropped =
                        {o \in Objects : seen[k][o] # db[k][o]}
    OBVIOUS
  <2>1. k \in Kinds /\ k # "configuration" /\ k # "privilege"
    BY DEF Hashed
  <2>2. host_state[k] = seen[k] /\ ~FirstRun(k)
    BY <2>1 DEF CInv, RemembersLastLook, ChangeTypeOK, FirstRun
  <2>3. counts'[k] = Detected(k, seen[k], db[k])
    BY <2>1, <2>2 DEF Look, CInv, ChangeTypeOK
  <2>4. /\ seen[k] \in States /\ db[k] \in States
        /\ \A p \in Objects : seen[k][p] \in Values(k) /\ db[k][p] \in Values(k)
    BY <2>1, <2>2 DEF CInv, ChangeTypeOK, PrivilegesAreGranted
  <2>5. QED
    BY <2>3, <2>4, DetectedIsDifference
<1>2. QED
  BY <1>1, ChangeInvariance, PTL DEF ChangeSpec, ChangedIffReported
=============================================================================
