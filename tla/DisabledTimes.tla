---------------------------- MODULE DisabledTimes ----------------------------
(***************************************************************************)
(* disabled_days and disabled_times: when the gatherer of one metric at    *)
(* one database skips its fetch.  Both may be set for the metric and, per  *)
(* metric, for the database; the clock is that of the gather daemon.       *)
(***************************************************************************)
EXTENDS Naturals, Sequences

CONSTANTS
  TicksPerDay,     \* minutes of a day
  MetricAttrs,     \* restrictions that the metric's definition may have
  HostConfigs      \* sequences of them that the database's configuration may have

\* A range of days or of times of day, as two numbers; a day is a range of one.
IsRange(r) == r \in Seq(Nat) /\ Len(r) = 2
\* A setting that is left out is {}; days are numbers.
IsWellFormed(x) ==
  /\ \A d \in x.days : IsRange(d)
  /\ \A r \in x.times : IsRange(r) /\ r[1] \in 0 .. TicksPerDay - 1 /\ r[2] \in 0 .. TicksPerDay - 1

ASSUME DisabledAssumption ==
  /\ TicksPerDay \in Nat \ {0}
  /\ \A a \in MetricAttrs : IsWellFormed(a)
  /\ \A hc \in HostConfigs :
       /\ hc \in Seq({hc[i] : i \in DOMAIN hc})
       /\ \A i \in DOMAIN hc : IsWellFormed(hc[i]) /\ hc[i].ours \in BOOLEAN

VARIABLES
  now,             \* ticks since Sunday 00:00
  attrs,           \* metric_attrs.yaml
  perMetric,       \* per_metric_disabled_intervals
  detailsKnown,    \* the metric's definition and the database are found
  lastPass         \* what the last pass of the gatherer did

disabledVars == <<now, attrs, perMetric, detailsKnown, lastPass>>

TicksPerWeek == 7 * TicksPerDay
Weekday == now \div TicksPerDay
TimeOfDay == now % TicksPerDay

DisabledInit ==
  /\ now = 0
  /\ attrs \in MetricAttrs
  /\ perMetric \in HostConfigs
  /\ detailsKnown \in BOOLEAN
  /\ lastPass = "none"

-----------------------------------------------------------------------------
(* When a fetch is skipped.                                                *)

\* A mutant of DaysStringToIntMap: 7 is not Sunday.
DaysFromZero(days) == {i \in 0 .. 7 : \E r \in days : i \in r[1] .. r[2]}

\* 7 is Sunday too.  A range that ends before it begins has no days.
DaysStringToIntMap(days) ==
  LET listed == {i \in 0 .. 7 : \E r \in days : i \in r[1] .. r[2]}
  IN listed \cup (IF 7 \in listed THEN {0} ELSE {})

IsInDaySpan(days) == Weekday \in DaysStringToIntMap(days)

\* The bounds are not in it.  A time zone in the setting makes no difference: the
\* daemon's hour and minute are taken to be in that zone.
IsInTimeSpan(r) ==
  LET t2 == IF r[1] > r[2] THEN r[2] + TicksPerDay ELSE r[2]
  IN r[1] < TimeOfDay /\ TimeOfDay < t2

InSomeTimeSpan(times) == \E r \in times : IsInTimeSpan(r)

\* An entry for other metrics is looked at as well once one for this metric was seen.
HostConfigMetricMatch(i) == \E j \in 1 .. i : perMetric[j].ours

HostEntryDisables(i) ==
  LET hcdi == perMetric[i]
  IN /\ HostConfigMetricMatch(i)
     /\ hcdi.times = {} \/ (hcdi.ours /\ InSomeTimeSpan(hcdi.times))
     /\ hcdi.days = {} \/ (hcdi.ours /\ IsInDaySpan(hcdi.days))

\* The database's configuration takes precedence.
IsInDisabledTimeDayRange ==
  \/ \E i \in DOMAIN perMetric : HostEntryDisables(i)
  \/ /\ ~HostConfigMetricMatch(Len(perMetric))
     /\ attrs.days # {} \/ attrs.times # {}
     /\ attrs.times = {} \/ InSomeTimeSpan(attrs.times)
     /\ attrs.days = {} \/ IsInDaySpan(attrs.days)

HasOverrides ==
  \E i \in DOMAIN perMetric :
    perMetric[i].ours /\ (perMetric[i].days # {} \/ perMetric[i].times # {})

IsMetricCurrentlyDisabledForHost ==
  /\ detailsKnown
  /\ HasOverrides \/ attrs.days # {} \/ attrs.times # {}
  /\ IsInDisabledTimeDayRange

-----------------------------------------------------------------------------
\* A pass of the gatherer's loop.
GatherOrSkip ==
  /\ lastPass' = IF IsMetricCurrentlyDisabledForHost THEN "skipped" ELSE "fetched"
  /\ UNCHANGED <<now, attrs, perMetric, detailsKnown>>

MinutePasses ==
  /\ now' = (now + 1) % TicksPerWeek
  /\ UNCHANGED <<attrs, perMetric, detailsKnown, lastPass>>

\* Definitions are read again every now and then, and so is the configuration.
SettingsChange ==
  /\ attrs' \in MetricAttrs
  /\ perMetric' \in HostConfigs
  /\ detailsKnown' \in BOOLEAN
  /\ UNCHANGED <<now, lastPass>>

DisabledNext == GatherOrSkip \/ MinutePasses \/ SettingsChange

DisabledSpec == DisabledInit /\ [][DisabledNext]_disabledVars

-----------------------------------------------------------------------------
(* Properties.                                                             *)

\* Types.
DisabledTypeOK ==
  /\ now \in 0 .. TicksPerWeek - 1
  /\ attrs \in MetricAttrs /\ perMetric \in HostConfigs
  /\ detailsKnown \in BOOLEAN
  /\ lastPass \in {"none", "skipped", "fetched"}

\* What the settings say, as a set of moments of the week: those of the days, 0 and
\* 7 being Sunday, on which a range begins, for as long as it lasts, its bounds excluded.
Moments(x) ==
  LET days == IF x.days = {} THEN 0 .. 6
              ELSE {i \in 0 .. 6 : \E r \in x.days :
                      i \in r[1] .. r[2] \/ (i = 0 /\ 7 \in r[1] .. r[2])}
      length(r) == (r[2] + TicksPerDay - r[1]) % TicksPerDay
      from(d, r) == {(d * TicksPerDay + r[1] + k) % TicksPerWeek : k \in 1 .. length(r) - 1}
  IN IF x.times = {}
       THEN UNION {d * TicksPerDay .. (d + 1) * TicksPerDay - 1 : d \in days}
       ELSE UNION {from(d, r) : d \in days, r \in x.times}

Restricts(x) == x.days # {} \/ x.times # {}
OurEntries == {i \in DOMAIN perMetric : perMetric[i].ours /\ Restricts(perMetric[i])}
Settings == IF OurEntries # {} THEN {perMetric[i] : i \in OurEntries}
            ELSE IF Restricts(attrs) THEN {attrs} ELSE {}
PausedMoments == UNION {Moments(x) : x \in Settings}

\* An entry without days and times pauses what should not be, and so do entries after it.
SaysNothing == \E i \in DOMAIN perMetric : ~Restricts(perMetric[i])
OverMidnight == \E x \in Settings : \E r \in x.times : r[1] > r[2]
\* A range has bounds to be the end of the pause or not.
AtABound == \E x \in Settings : \E r \in x.times : TimeOfDay \in {r[1], r[2]}

\* While ranges do not go over midnight a fetch is skipped at the moments that the
\* settings say and at no other: days and times must both fit, those of the database
\* replace those of the metric, and several of one kind add up.
PausesAsTold ==
  [][GatherOrSkip /\ detailsKnown /\ ~SaysNothing /\ ~OverMidnight =>
       (lastPass' = "skipped" <=> now \in PausedMoments)]_disabledVars

\* The same, the bounds left open, of a range such as "22:00-05:00", the example at
\* metrics/wal/metric_attrs.yaml:7.
NightsArePaused ==
  [][GatherOrSkip /\ detailsKnown /\ ~SaysNothing /\ OverMidnight /\ ~AtABound =>
       (lastPass' = "skipped" <=> now \in PausedMoments)]_disabledVars
=============================================================================
