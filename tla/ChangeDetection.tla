-------------------------- MODULE ChangeDetection ---------------------------
(***************************************************************************)
(* The metric "change_events" of one database: every pass of its gatherer  *)
(* looks at the hashes of all objects, one kind after the other, compares  *)
(* them with host_state, which it keeps between passes, and stores what    *)
(* changed.                                                                *)
(***************************************************************************)
EXTENDS Naturals, Sequences, FiniteSets

CONSTANTS
  Order,           \* the kinds of objects in the order of a pass
  Objects,         \* identifiers, unique within a kind
  Hashes,          \* what is known of an object: md5, value, validity
  Ignored,         \* the setting "connection_ID"
  FirstObjects,    \* possible contents of the database at the beginning
  MaxAlterations   \* bound on the changes of objects

Absent == 0
Kinds == {Order[i] : i \in DOMAIN Order}
\* Procedures, tables and indexes are treated alike.
Hashed == Kinds \ {"configuration", "privilege"}
States == [Objects -> Hashes \cup {Absent}]
\* A privilege is there or not.
Granted == CHOOSE h \in Hashes : TRUE
Values(k) == IF k = "privilege" THEN {Absent, Granted} ELSE Hashes \cup {Absent}
None == [o \in Objects |-> Absent]

ASSUME ChangeAssumption ==
  /\ Order \in Seq({"sproc", "table", "index", "configuration", "privilege"})
  /\ Order # <<>>
  /\ IsFiniteSet(Objects)
  /\ Absent \notin Hashes /\ Hashes # {}
  /\ Ignored \subseteq Objects
  /\ FirstObjects # {} /\ FirstObjects \subseteq [Kinds -> States]
  /\ \A d \in FirstObjects, k \in Kinds, o \in Objects : d[k][o] \in Values(k)
  /\ MaxAlterations \in Nat

VARIABLES
  db,              \* the objects of the monitored database
  alterations,     \* number of changes so far
  host_state,      \* what the gatherer remembers, per kind
  remembered,      \* the kinds that host_state has a map for, maybe an empty one
  next,            \* index of the kind to be looked at; 0 between passes
  counts,          \* of this pass: objects created, altered, dropped per kind
  reported,        \* kinds for which this pass has stored events
  summary,         \* the last pass ended with an "object_changes" message
  seen,            \* history: what the last look that succeeded saw
  looked,          \* history: the kinds for which a look has succeeded
  replayed         \* history: what follows from the stored events

memory == <<host_state, remembered, seen, looked, replayed>>
changeVars == <<db, alterations, next, counts, reported, summary, memory>>

Counts == [created : SUBSET Objects, altered : SUBSET Objects, dropped : SUBSET Objects]
NoChange == [created |-> {}, altered |-> {}, dropped |-> {}]
Present(s) == {o \in Objects : s[o] # Absent}

ChangeInit ==
  /\ db \in FirstObjects
  /\ alterations = 0
  /\ host_state = [k \in Kinds |-> None] /\ remembered = {}
  /\ next = 0
  /\ counts = [k \in Kinds |-> NoChange]
  /\ reported = {} /\ summary = FALSE
  /\ seen = [k \in Kinds |-> None] /\ looked = {}
  /\ replayed = [k \in Kinds |-> None]

-----------------------------------------------------------------------------
(* What is detected when "now" is found and "old" was remembered.          *)

New(old, now) == Present(now) \ Present(old)

\* connection_ID changes all the time.
Altered(k, old, now) ==
  {o \in Present(old) \cap Present(now) :
     k # "privilege" /\ old[o] # now[o] /\ ~(k = "configuration" /\ o \in Ignored)}

\* A mutant of Merged: altered objects are not remembered.
MergedNewOnly(k, old, now) == [o \in Objects |-> IF o \in New(old, now) THEN now[o] ELSE old[o]]

\* The remembered map once the rows of the result have been gone through.
Merged(k, old, now) ==
  [o \in Objects |->
    IF o \in New(old, now) \cup Altered(k, old, now) THEN now[o] ELSE old[o]]

\* A mutant of LooksForDrops: the numbers are compared before new objects are added.
LooksForFewer(k, old, now) ==
  CASE k = "configuration" -> FALSE
    [] k = "privilege" -> Present(now) # {}
    [] OTHER -> Cardinality(Present(old)) # Cardinality(Present(now))

\* Objects are looked for among the remembered ones only if the numbers differ.
\* Settings do not disappear, and that there are no privileges at all is taken
\* for a failure.
LooksForDrops(k, old, now) ==
  CASE k = "configuration" -> FALSE
    [] k = "privilege" -> Present(now) # {}
    [] OTHER -> Cardinality(Present(Merged(k, old, now))) # Cardinality(Present(now))

Missing(k, old, now) ==
  IF LooksForDrops(k, old, now) THEN Present(Merged(k, old, now)) \ Present(now) ELSE {}

Detected(k, old, now) ==
  [created |-> New(old, now), altered |-> Altered(k, old, now), dropped |-> Missing(k, old, now)]

\* A mutant of After: what is gone is not forgotten.
AfterKeeps(k, old, now) == Merged(k, old, now)

After(k, old, now) ==
  [o \in Objects |-> IF o \in Missing(k, old, now) THEN Absent ELSE Merged(k, old, now)[o]]

-----------------------------------------------------------------------------
(* A pass of CheckForPGObjectChangesAndStore.                              *)

BeginPass ==
  /\ next = 0
  /\ next' = 1
  /\ counts' = [k \in Kinds |-> NoChange]
  /\ reported' = {}
  /\ UNCHANGED <<db, alterations, summary, memory>>

AtKind(k) == next \in DOMAIN Order /\ Order[next] = k
FirstRun(k) == k \notin remembered

\* What the stored rows say: the new value of what was created or altered.
Replay(old, e, now) ==
  [o \in Objects |->
    IF o \in e.created \cup e.altered THEN now[o] ELSE IF o \in e.dropped THEN Absent ELSE old[o]]

\* On the first run everything is remembered and nothing reported.
Look(k) ==
  LET e == IF FirstRun(k) THEN NoChange ELSE Detected(k, host_state[k], db[k])
  IN /\ AtKind(k)
     /\ host_state' = [host_state EXCEPT ![k] =
                         IF FirstRun(k) THEN db[k] ELSE After(k, host_state[k], db[k])]
     /\ remembered' = remembered \cup {k}
     /\ counts' = [counts EXCEPT ![k] = e]
     /\ reported' = IF e # NoChange THEN reported \cup {k} ELSE reported
     /\ seen' = [seen EXCEPT ![k] = db[k]]
     /\ looked' = looked \cup {k}
     /\ replayed' = [replayed EXCEPT ![k] =
                       IF FirstRun(k) THEN db[k] ELSE Replay(replayed[k], e, db[k])]
     /\ next' = next + 1
     /\ UNCHANGED <<db, alterations, summary>>

\* No SQL for the server's version, or the query fails: the run was the first one
\* all the same, since the empty map is there from now on.
LookFails(k) ==
  /\ AtKind(k)
  /\ remembered' = remembered \cup {k}
  /\ next' = next + 1
  /\ UNCHANGED <<db, alterations, host_state, counts, reported, summary, seen, looked, replayed>>

\* The summary's tests differ from kind to kind.
Mentioned(k) ==
  LET e == counts[k]
  IN CASE k = "configuration" -> e.altered # {} \/ e.created # {}
       [] k = "privilege" -> e.dropped # {} \/ e.created # {}
       [] OTHER -> e.altered # {} \/ e.created # {} \/ e.dropped # {}

EndPass ==
  /\ next = Len(Order) + 1
  /\ next' = 0
  /\ summary' = \E k \in Kinds : Mentioned(k)
  /\ UNCHANGED <<db, alterations, counts, reported, memory>>

\* host_state is a local of MetricGathererLoop: a gatherer that is stopped and
\* started again begins from nothing.
RestartGatherer ==
  /\ next = 0
  /\ alterations < MaxAlterations
  /\ alterations' = alterations + 1
  /\ host_state' = [k \in Kinds |-> None] /\ remembered' = {}
  /\ seen' = [k \in Kinds |-> None] /\ looked' = {}
  /\ replayed' = [k \in Kinds |-> None]
  /\ UNCHANGED <<db, next, counts, reported, summary>>

\* DDL, ALTER SYSTEM, GRANT or REVOKE.
ChangeObject(k, o) ==
  /\ alterations < MaxAlterations
  /\ alterations' = alterations + 1
  /\ \E h \in Values(k) \ {db[k][o]} : db' = [db EXCEPT ![k][o] = h]
  /\ UNCHANGED <<next, counts, reported, summary, memory>>

ChangeNext ==
  \/ BeginPass \/ EndPass \/ RestartGatherer
  \/ \E k \in Kinds : Look(k) \/ LookFails(k)
  \/ \E k \in Kinds, o \in Objects : ChangeObject(k, o)

ChangeSpec == ChangeInit /\ [][ChangeNext]_changeVars

\* The gatherer goes on, and no look fails for ever.
ChangeFairness ==
  /\ WF_changeVars(BeginPass \/ EndPass \/ \E k \in Kinds : Look(k) \/ LookFails(k))
  /\ \A k \in Kinds : SF_changeVars(Look(k))

-----------------------------------------------------------------------------
(* Properties.                                                             *)

\* Types; a kind that has been looked at is remembered.
ChangeTypeOK ==
  /\ db \in [Kinds -> States]
  /\ alterations \in 0 .. MaxAlterations
  /\ host_state \in [Kinds -> States]
  /\ next \in 0 .. Len(Order) + 1
  /\ counts \in [Kinds -> Counts]
  /\ reported \subseteq Kinds
  /\ summary \in BOOLEAN
  /\ seen \in [Kinds -> States]
  /\ replayed \in [Kinds -> States]
  /\ looked \subseteq remembered /\ remembered \subseteq Kinds

\* What is remembered is what the last successful look saw, failures and restarts
\* notwithstanding: of procedures, tables and indexes all of it, of privileges all
\* of it unless it saw none, of settings those that were there.
RemembersLastLook ==
  \A k \in looked :
    CASE k = "privilege" -> seen[k] = None \/ host_state[k] = seen[k]
      [] k = "configuration" ->
           \A o \in Present(seen[k]) \ Ignored : host_state[k][o] = seen[k][o]
      [] OTHER -> host_state[k] = seen[k]

\* Who replays the stored events, from what was there when the gatherer began,
\* gets what the gatherer remembers: no event is stored that does not change it,
\* and nothing changes in it that is not stored.
EventsTellAll == replayed = host_state

\* An object is reported if, and only if, it differs from what the last successful
\* look saw, whatever failed in between.  (Where no look has succeeded yet but one has
\* failed, everything is reported as created; that is outside this property.)
ChangedIffReported ==
  [][\A k \in Hashed : Look(k) /\ k \in looked =>
       counts'[k].created \cup counts'[k].altered \cup counts'[k].dropped =
         {o \in Objects : seen[k][o] # db[k][o]}]_changeVars

\* What the gatherer cannot or will not notice: settings that are gone and
\* connection_ID, and privileges once there are none.
Noticed(k) ==
  CASE k = "privilege" -> db[k] = None \/ host_state[k] = db[k]
    [] k = "configuration" -> \A o \in Present(db[k]) \ Ignored : host_state[k][o] = db[k][o]
    [] OTHER -> host_state[k] = db[k]

\* Once objects no longer change, everything has been noticed: no failure or
\* restart makes the gatherer take an old state for the present one.
ChangesNoticed == <>[](\A k \in Kinds : Noticed(k))
=============================================================================
