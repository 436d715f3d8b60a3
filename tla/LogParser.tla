----------------------------- MODULE LogParser ------------------------------
(***************************************************************************)
(* The gatherer of "server_log_event_counts" (logparseLoop): it follows    *)
(* the server's log from file to file, counts the events and stores the    *)
(* counts once per interval.  The server writes to its newest file only,   *)
(* and a line may be seen half written.                                    *)
(***************************************************************************)
EXTENDS Naturals

CONSTANTS
  MaxFiles,        \* bound on the log files, numbered as the server opens them
  MaxLines,        \* bound on the lines of a file
  MaxErrors,       \* bound on failing reads
  RemovesCurrent   \* whether the file may be removed that the reader follows

ASSUME LogAssumption ==
  /\ MaxFiles \in Nat \ {0}
  /\ MaxLines \in Nat
  /\ MaxErrors \in Nat
  /\ RemovesCurrent \in BOOLEAN

\* A line has two pieces, of which the second ends with the newline.
MaxPieces == 2 * MaxLines
Files == 1 .. MaxFiles
Lines == 1 .. MaxLines

VARIABLES
  newest,          \* the file that the server writes
  pieces,          \* how many pieces each file holds
  removed,         \* files that are gone
  pc,              \* where the loop is
  latest,          \* the file followed, 0 if none was found yet
  previous,        \* the one before, 0 if none
  handle,          \* latestHandle # nil
  pos,             \* how many pieces the reader has taken
  firstRun,
  linesRead,
  eventCounts,     \* events counted and not yet stored
  due,             \* lastSendTime is at least one interval ago
  readErrors,      \* failing reads so far
  counted,         \* history: how often each line was counted
  opened,          \* history: how often each file was opened
  begun,           \* history: where the reading of each file began
  reached,         \* history: how far the reader has come in each file
  torn             \* history: lines of which the reader took the first piece alone

serverVars == <<newest, pieces, removed>>
position == <<latest, previous, handle, pos, firstRun, linesRead>>
history == <<counted, opened, begun, reached, torn>>
logVars == <<serverVars, pc, position, eventCounts, due, readErrors, history>>

Matching == {f \in 1 .. newest : f \notin removed}

LogInit ==
  /\ newest = 1
  /\ pieces \in [Files -> 0 .. MaxPieces]
  /\ \A f \in Files \ {1} : pieces[f] = 0
  /\ removed = {}
  /\ pc = "config"
  /\ latest = 0 /\ previous = 0 /\ handle = FALSE /\ pos = 0
  /\ firstRun = TRUE /\ linesRead = 0
  /\ eventCounts = 0 /\ due = TRUE /\ readErrors = 0
  /\ counted = [f \in Files |-> [l \in Lines |-> 0]]
  /\ opened = [f \in Files |-> 0]
  /\ begun = [f \in Files |-> 0]
  /\ reached = [f \in Files |-> 0]
  /\ torn = {}

-----------------------------------------------------------------------------
(* The outer loop: control messages, configuration, choice of the file.    *)

Stop ==
  /\ pc = "config"
  /\ pc' = "stopped"
  /\ UNCHANGED <<serverVars, position, eventCounts, due, readErrors, history>>

\* What the loop needs to know may not be had for a while, which is a step that
\* changes nothing.  Until a file was opened the newest is looked for again.
Configure ==
  /\ pc = "config"
  /\ latest' = IF latest = 0 \/ firstRun THEN newest ELSE latest
  /\ pc' = IF handle THEN "read" ELSE "open"
  /\ UNCHANGED <<serverVars, previous, handle, pos, firstRun, linesRead, eventCounts, due,
                 readErrors, history>>

\* The reader is at p.
Reach(p) ==
  /\ pos' = p
  /\ reached' = [reached EXCEPT ![latest] = IF p > @ THEN p ELSE @]

\* Where reading begins: behind the lines that were read before, if the file is the
\* previous one; at the end of the first file; at the beginning of any other.
Beginning ==
  IF previous = latest /\ linesRead > 0 THEN 2 * linesRead
  ELSE IF firstRun THEN pieces[latest]
  ELSE 0

Open ==
  /\ pc = "open"
  /\ latest \notin removed
  /\ handle' = TRUE
  /\ firstRun' = FALSE
  /\ pc' = "read"
  /\ opened' = [opened EXCEPT ![latest] = @ + 1]
  /\ begun' = IF firstRun THEN [begun EXCEPT ![latest] = Beginning] ELSE begun
  /\ Reach(Beginning)
  /\ torn' = IF firstRun /\ Beginning % 2 = 1 THEN {<<latest, (Beginning + 1) \div 2>>} ELSE torn
  /\ UNCHANGED <<serverVars, latest, previous, linesRead, eventCounts, due, readErrors, counted>>

OpenFails ==
  /\ pc = "open"
  /\ latest \in removed
  /\ pc' = "config"
  /\ UNCHANGED <<serverVars, position, eventCounts, due, readErrors, history>>

-----------------------------------------------------------------------------
(* The inner loop: one line after the other.                               *)

\* The number of the line whose end comes next.
NextLine == pos \div 2 + 1
Complete == 2 * NextLine <= pieces[latest]

\* The counts are stored, and zeroed, if the interval is over.
SendIfNeeded(count) ==
  /\ eventCounts' = IF due THEN 0 ELSE count
  /\ due' = FALSE

\* The rest of a torn line is taken for a line; it may look like one, or not.
ReadLine ==
  /\ pc = "read"
  /\ Complete
  /\ Reach(2 * NextLine)
  /\ linesRead' = linesRead + 1
  /\ \E matches \in IF pos % 2 = 0 THEN {TRUE} ELSE BOOLEAN :
       IF matches
         THEN /\ SendIfNeeded(eventCounts + 1)
              /\ counted' = [counted EXCEPT ![latest][NextLine] = @ + 1]
         ELSE /\ SendIfNeeded(eventCounts)
              /\ UNCHANGED counted
  /\ UNCHANGED <<serverVars, pc, latest, previous, handle, firstRun, readErrors, opened, begun,
                 torn>>

\* At the end of the file what there is of a line is taken and thrown away, then
\* the loop sleeps.
ReachEOF ==
  /\ pc = "read"
  /\ ~Complete
  /\ Reach(pieces[latest])
  /\ torn' = IF pieces[latest] % 2 = 1 THEN torn \cup {<<latest, NextLine>>} ELSE torn
  /\ pc' = "asleep"
  /\ UNCHANGED <<serverVars, latest, previous, handle, firstRun, linesRead, eventCounts, due,
                 readErrors, counted, opened, begun>>

\* The next file by modification time; none if the one being read is gone.
Newer == IF latest \in removed THEN {} ELSE {f \in Matching : f > latest}

\* A mutant of SwitchFile: the old file is not closed.
SwitchFileLeaveOpen ==
  /\ pc = "asleep"
  /\ \E f \in Newer : latest' = f
  /\ previous' = latest
  /\ linesRead' = 0
  /\ pc' = "config"
  /\ UNCHANGED <<serverVars, handle, pos, firstRun, eventCounts, due, readErrors, history>>

SwitchFile ==
  /\ pc = "asleep"
  /\ \E f \in Newer :
       /\ \A g \in Newer : f <= g
       /\ latest' = f
  /\ previous' = latest
  /\ handle' = FALSE
  /\ linesRead' = 0
  /\ pc' = "config"
  /\ UNCHANGED <<serverVars, pos, firstRun, eventCounts, due, readErrors, history>>

\* Mutants of KeepFile: the file is read from the beginning again; nothing is stored.
KeepFileFromStart ==
  /\ pc = "asleep"
  /\ Newer = {}
  /\ SendIfNeeded(eventCounts)
  /\ pos' = 0
  /\ pc' = "read"
  /\ UNCHANGED <<serverVars, latest, previous, handle, firstRun, linesRead, readErrors, history>>
KeepFileQuietly ==
  /\ pc = "asleep"
  /\ Newer = {}
  /\ pc' = "read"
  /\ UNCHANGED <<serverVars, position, eventCounts, due, readErrors, history>>

KeepFile ==
  /\ pc = "asleep"
  /\ Newer = {}
  /\ SendIfNeeded(eventCounts)
  /\ pc' = "read"
  /\ UNCHANGED <<serverVars, position, readErrors, history>>

ReadFails ==
  /\ pc = "read"
  /\ readErrors < MaxErrors
  /\ readErrors' = readErrors + 1
  /\ handle' = FALSE
  /\ pc' = "config"
  /\ UNCHANGED <<serverVars, latest, previous, pos, firstRun, linesRead, eventCounts, due, history>>

\* After ServersRefreshLoopSeconds.
Refresh ==
  /\ pc = "read"
  /\ pc' = "config"
  /\ UNCHANGED <<serverVars, position, eventCounts, due, readErrors, history>>

-----------------------------------------------------------------------------
(* The server and the clock.                                               *)

Write ==
  /\ pieces[newest] < MaxPieces
  /\ pieces' = [pieces EXCEPT ![newest] = @ + 1]
  /\ UNCHANGED <<newest, removed, pc, position, eventCounts, due, readErrors, history>>

Rotate ==
  /\ newest < MaxFiles
  /\ pieces[newest] % 2 = 0
  /\ newest' = newest + 1
  /\ UNCHANGED <<pieces, removed, pc, position, eventCounts, due, readErrors, history>>

Remove ==
  /\ \E f \in 1 .. newest - 1 :
       /\ f \notin removed
       /\ f # latest \/ firstRun \/ RemovesCurrent
       /\ removed' = removed \cup {f}
  /\ UNCHANGED <<newest, pieces, pc, position, eventCounts, due, readErrors, history>>

IntervalPasses ==
  /\ ~due
  /\ due' = TRUE
  /\ UNCHANGED <<serverVars, pc, position, eventCounts, readErrors, history>>

OuterLoop == Configure \/ Open \/ OpenFails
Read == ReadLine \/ ReachEOF
AfterSleep == SwitchFile \/ KeepFile

LogNext ==
  \/ Stop \/ OuterLoop \/ Read \/ AfterSleep \/ ReadFails \/ Refresh
  \/ Write \/ Rotate \/ Remove \/ IntervalPasses

LogSpec == LogInit /\ [][LogNext]_logVars

\* The loop goes on, also when it is sent through the outer loop again and again.
LogFairness ==
  /\ WF_logVars(OuterLoop) /\ SF_logVars(Read) /\ WF_logVars(AfterSleep)
  /\ WF_logVars(IntervalPasses)

-----------------------------------------------------------------------------
(* Properties.                                                             *)

ServerTypeOK ==
  /\ newest \in Files
  /\ pieces \in [Files -> 0 .. MaxPieces]
  /\ removed \subseteq Files

HistoryTypeOK ==
  /\ counted \in [Files -> [Lines -> Nat]]
  /\ opened \in [Files -> Nat]
  /\ begun \in [Files -> 0 .. MaxPieces]
  /\ reached \in [Files -> 0 .. MaxPieces]
  /\ torn \subseteq Files \X Lines

\* Types; an open file has been chosen, and the reader is not past its end.
LogTypeOK ==
  /\ ServerTypeOK /\ HistoryTypeOK
  /\ pc \in {"config", "open", "read", "asleep", "stopped"}
  /\ latest \in 0 .. newest /\ previous \in 0 .. newest
  /\ handle \in BOOLEAN
  /\ pos \in 0 .. MaxPieces
  /\ firstRun \in BOOLEAN
  /\ linesRead \in Nat
  /\ eventCounts \in Nat
  /\ due \in BOOLEAN
  /\ readErrors \in 0 .. MaxErrors
  /\ pc \in {"read", "asleep"} => handle
  /\ handle => latest # 0 /\ pos <= pieces[latest]

\* Each time a file is opened none of its lines is counted twice, torn or not, and
\* so no line is counted more often than its file was opened.
NoLineTwicePerOpening ==
  \A f \in Files, l \in Lines : counted[f][l] <= opened[f]

\* No line is passed over: what the reader has passed in a file, whatever errors
\* and changes of files there were, is counted, but for what was there when it
\* began and for lines it saw half written.
NothingPassedOver ==
  \A f \in Files, l \in Lines :
    begun[f] < 2 * l /\ 2 * l <= reached[f] /\ <<f, l>> \notin torn => counted[f][l] > 0

\* Dead code: the lines that were read before are skipped only when a file is the one before
\* it as well, and that does not happen: the loop goes to newer files only.
SkippingIsDead == pc = "open" => ~(previous = latest /\ linesRead > 0)

\* Counts are right as far as the files are concerned.
LinesCounted == NoLineTwicePerOpening /\ NothingPassedOver

\* The reader is at the end of the newest file, and everything counted is stored.
CaughtUp == latest = newest /\ pos = pieces[newest] /\ eventCounts = 0

\* Once the server writes no more, the reader comes to the end of the newest file,
\* through any rotations and errors, and stores what it counted, provided that
\* nobody removes the file it reads.
CatchesUp == <>[](pc = "stopped" \/ CaughtUp)
=============================================================================
