-------------------------- MODULE LogParser_proofs ---------------------------
(***************************************************************************)
(* Proofs about the log reader, for any number of files, lines and errors, *)
(* and whatever files are removed.                                         *)
(***************************************************************************)
EXTENDS LogParser, TLAPS

\* Until the first file is opened nothing has been read; files are chosen upwards.
OldestFirst ==
  /\ pc = "open" => latest # 0 /\ ~handle
  /\ firstRun => ~handle /\ previous = 0 /\ \A f \in Files : reached[f] = 0
  /\ latest = 0 => firstRun
  /\ latest # 0 => previous < latest

\* The lines that an open file still has to offer have not been counted since it was
\* opened, and the one that the reader stands in the middle of is known as torn.
Ahead ==
  handle =>
    /\ pos <= reached[latest]
    /\ \A l \in Lines : 2 * l > pos => counted[latest][l] < opened[latest]
    /\ pos % 2 = 1 => <<latest, NextLine>> \in torn

LInv == LogTypeOK /\ OldestFirst /\ Ahead /\ LinesCounted

\* Numbers are even or odd.
LEMMA Halves ==
  ASSUME NEW n \in Nat
  PROVE  /\ n \div 2 \in Nat
         /\ \/ n % 2 = 0 /\ n = 2 * (n \div 2)
            \/ n % 2 = 1 /\ n = 2 * (n \div 2) + 1
  OBVIOUS

\* Bounds.
LEMMA Bounds ==
  /\ MaxLines \in Nat /\ MaxPieces \in Nat /\ MaxPieces = 2 * MaxLines
  /\ MaxFiles \in Nat /\ 1 \in Files
  BY LogAssumption DEF LogAssumption, MaxPieces, Files

\* The invariant holds at the beginning.
LEMMA LogInitInv == LogInit => LInv
<1> SUFFICES ASSUME LogInit PROVE LInv
  OBVIOUS
<1> USE Bounds, LogAssumption DEF LogInit, LogAssumption
<1>1. \A f \in Files, l \in Lines : counted[f][l] = 0 /\ opened[f] = 0 /\ reached[f] = 0
  OBVIOUS
<1>2. LogTypeOK
  <2>1. counted \in [Files -> [Lines -> Nat]] /\ opened \in [Files -> Nat]
    OBVIOUS
  <2>2. begun \in [Files -> 0 .. MaxPieces] /\ reached \in [Files -> 0 .. MaxPieces]
    OBVIOUS
  <2>3. /\ latest \in 0 .. newest /\ previous \in 0 .. newest /\ newest \in Files
        /\ pos \in 0 .. MaxPieces /\ readErrors \in 0 .. MaxErrors
        /\ linesRead \in Nat /\ eventCounts \in Nat
    OBVIOUS
  <2>4. QED
    BY <2>1, <2>2, <2>3, Zenon DEF LogTypeOK, ServerTypeOK, HistoryTypeOK
<1>3. OldestFirst /\ Ahead
  BY DEF OldestFirst, Ahead
<1>4. LinesCounted
  BY <1>1 DEF LinesCounted, NoLineTwicePerOpening, NothingPassedOver, Lines
<1>5. QED
  BY <1>2, <1>3, <1>4 DEF LInv

-----------------------------------------------------------------------------
(* The steps.                                                              *)

\* Where the reader is, and what is known of the file it is in.
LEMMA Whereabouts ==
  ASSUME LInv
  PROVE  /\ LogTypeOK
         /\ newest \in Nat /\ newest >= 1 /\ newest <= MaxFiles
         /\ latest \in Nat /\ latest <= newest /\ pos \in Nat
         /\ latest # 0 => latest \in Files
         /\ latest \in Files =>
              /\ pieces[latest] \in 0 .. MaxPieces
              /\ reached[latest] \in 0 .. MaxPieces
              /\ opened[latest] \in Nat
         /\ handle => latest # 0 /\ pos <= pieces[latest] /\ pos <= reached[latest]
         /\ pc \in {"read", "asleep"} => handle
         /\ pc = "open" => latest # 0 /\ ~(previous = latest /\ linesRead > 0)
<1>1. LogTypeOK /\ OldestFirst /\ Ahead
  BY DEF LInv
<1>2. /\ newest \in Files /\ latest \in 0 .. newest /\ previous \in 0 .. newest
      /\ pos \in 0 .. MaxPieces
  BY <1>1 DEF LogTypeOK, ServerTypeOK, HistoryTypeOK
<1>3. /\ newest \in Nat /\ newest >= 1 /\ newest <= MaxFiles
      /\ latest \in Nat /\ latest <= newest /\ pos \in Nat
  BY <1>2, Bounds DEF Files
<1>4. latest # 0 => latest \in Files
  BY <1>3, Bounds DEF Files
<1>5. /\ pieces \in [Files -> 0 .. MaxPieces]
      /\ reached \in [Files -> 0 .. MaxPieces]
      /\ opened \in [Files -> Nat]
      /\ handle => latest # 0 /\ pos <= pieces[latest]
      /\ pc \in {"read", "asleep"} => handle
  BY <1>1, Zenon DEF LogTypeOK, ServerTypeOK, HistoryTypeOK
<1>6. pc = "open" => latest # 0 /\ ~(previous = latest /\ linesRead > 0)
  BY <1>1, <1>3 DEF OldestFirst
<1>7. handle => pos <= reached[latest]
  BY <1>1 DEF Ahead
<1>8. QED
  BY <1>1, <1>3, <1>4, <1>5, <1>6, <1>7

\* What the reader has passed does not become less, and it is where it is.
LEMMA ReachIs ==
  ASSUME LogTypeOK, latest # 0, NEW p \in 0 .. MaxPieces, Reach(p)
  PROVE  /\ latest \in Files
         /\ pos' = p
         /\ reached' \in [Files -> 0 .. MaxPieces]
         /\ \A f \in Files \ {latest} : reached'[f] = reached[f]
         /\ reached'[latest] >= p
         /\ reached'[latest] \in {reached[latest], p}
<1>1. latest \in Files /\ reached[latest] \in 0 .. MaxPieces
  BY Bounds DEF LogTypeOK, ServerTypeOK, HistoryTypeOK, Files
<1>2. QED
  BY <1>1, Bounds DEF LogTypeOK, ServerTypeOK, HistoryTypeOK, Reach

\* The first time a file is opened.
LEMMA OpenInv ==
  ASSUME LInv, Open
  PROVE  LInv'
<1> USE Bounds DEF Open
<1>1. /\ LogTypeOK /\ latest # 0 /\ latest \in Files /\ ~(previous = latest /\ linesRead > 0)
      /\ pieces[latest] \in 0 .. MaxPieces /\ opened[latest] \in Nat
  BY Whereabouts
<1>2. Beginning = IF firstRun THEN pieces[latest] ELSE 0
  BY <1>1 DEF Beginning
<1>3. /\ Beginning \in 0 .. MaxPieces /\ Beginning <= pieces[latest]
      /\ Beginning % 2 = 1 => firstRun
  BY <1>1, <1>2
<1>4. /\ pos' = Beginning
      /\ reached' \in [Files -> 0 .. MaxPieces]
      /\ \A f \in Files \ {latest} : reached'[f] = reached[f]
      /\ reached'[latest] >= Beginning
      /\ reached'[latest] \in {reached[latest], Beginning}
  BY <1>1, <1>3, ReachIs
<1>5. /\ opened' \in [Files -> Nat]
      /\ opened'[latest] = opened[latest] + 1
      /\ \A f \in Files \ {latest} : opened'[f] = opened[f]
  BY <1>1 DEF LogTypeOK, ServerTypeOK, HistoryTypeOK
<1>6. begun' \in [Files -> 0 .. MaxPieces]
  BY <1>1, <1>3 DEF LogTypeOK, ServerTypeOK, HistoryTypeOK
<1>7. Beginning % 2 = 1 =>
        /\ (Beginning + 1) \div 2 = Beginning \div 2 + 1
        /\ (Beginning + 1) \div 2 \in Lines
  <2>1. /\ Beginning = 2 * (Beginning \div 2) + 1 <=> Beginning % 2 = 1
        /\ Beginning \div 2 \in Nat
    BY <1>3, Halves
  <2>2. QED
    BY <1>3, <2>1 DEF Lines
<1>8. torn' \subseteq Files \X Lines
  BY <1>1, <1>7 DEF LogTypeOK, ServerTypeOK, HistoryTypeOK
<1>9. LogTypeOK'
  <2>1. handle' => latest' # 0 /\ pos' <= pieces'[latest']
    BY <1>1, <1>3, <1>4 DEF serverVars
  <2>2. QED
    BY <1>1, <1>3, <1>4, <1>5, <1>6, <1>8, <2>1
       DEF LogTypeOK, ServerTypeOK, HistoryTypeOK, serverVars
<1>10. OldestFirst'
  BY <1>1 DEF LInv, OldestFirst
<1>11. Ahead'
  <2>1. \A l \in Lines : counted'[latest][l] < opened'[latest]
    BY <1>1, <1>5
       DEF LInv, LinesCounted, NoLineTwicePerOpening, LogTypeOK, ServerTypeOK, HistoryTypeOK
  <2>2. pos' % 2 = 1 => <<latest, NextLine'>> \in torn'
    BY <1>2, <1>3, <1>4, <1>7 DEF NextLine
  <2>3. QED
    BY <1>4, <2>1, <2>2 DEF Ahead
<1>12. NoLineTwicePerOpening'
  BY <1>1, <1>5
     DEF LInv, LinesCounted, NoLineTwicePerOpening, LogTypeOK, ServerTypeOK, HistoryTypeOK
<1>13. NothingPassedOver'
  <2> SUFFICES ASSUME NEW f \in Files, NEW l \in Lines,
                      begun'[f] < 2 * l, 2 * l <= reached'[f], <<f, l>> \notin torn'
               PROVE  counted[f][l] > 0
    BY DEF NothingPassedOver
  <2>1. l \in Nat /\ l >= 1
    BY DEF Lines
  <2>2. CASE firstRun
    <3>1. reached[f] = 0
      BY <2>2 DEF LInv, OldestFirst
    <3>2. f = latest /\ reached'[f] = Beginning
      BY <1>3, <1>4, <2>1, <3>1
    <3>3. begun'[f] = Beginning
      BY <1>1, <2>2, <3>2 DEF LogTypeOK, ServerTypeOK, HistoryTypeOK
    <3>4. QED
      BY <1>3, <2>1, <3>2, <3>3
  <2>3. CASE ~firstRun
    <3>1. begun' = begun /\ torn' = torn /\ Beginning = 0
      BY <1>2, <1>3, <2>3
    <3>2. reached'[f] = reached[f]
      BY <1>1, <1>4, <2>1, <3>1 DEF LogTypeOK, ServerTypeOK, HistoryTypeOK
    <3>3. QED
      BY <3>1, <3>2 DEF LInv, LinesCounted, NothingPassedOver
  <2>4. QED
    BY <2>2, <2>3
<1>14. QED
  BY <1>9, <1>10, <1>11, <1>12, <1>13 DEF LInv, LinesCounted

\* A line, or the rest of a torn one.
LEMMA ReadLineInv ==
  ASSUME LInv, ReadLine
  PROVE  LInv'
<1> USE Bounds DEF ReadLine
<1>1. /\ LogTypeOK /\ handle /\ latest # 0 /\ latest \in Files /\ pos \in Nat
      /\ pos <= reached[latest] /\ reached[latest] \in Nat
      /\ pieces[latest] \in 0 .. MaxPieces
  BY Whereabouts
<1>2. /\ NextLine \in Lines /\ 2 * NextLine \in 0 .. MaxPieces /\ 2 * NextLine <= pieces[latest]
      /\ pos < 2 * NextLine
      /\ \A l \in Lines : pos < 2 * l /\ 2 * l <= 2 * NextLine => l = NextLine
      /\ (2 * NextLine) % 2 = 0
  <2>1. /\ pos \div 2 \in Nat
        /\ pos = 2 * (pos \div 2) \/ pos = 2 * (pos \div 2) + 1
    BY <1>1, Halves
  <2>2. NextLine = pos \div 2 + 1 /\ 2 * NextLine <= pieces[latest]
    BY DEF NextLine, Complete
  <2>3. QED
    BY <1>1, <2>1, <2>2 DEF Lines
<1>3. /\ pos' = 2 * NextLine
      /\ reached' \in [Files -> 0 .. MaxPieces]
      /\ \A f \in Files \ {latest} : reached'[f] = reached[f]
      /\ reached'[latest] >= 2 * NextLine
      /\ reached'[latest] \in {reached[latest], 2 * NextLine}
  BY <1>1, <1>2, ReachIs
<1>4. PICK matches \in BOOLEAN :
        /\ pos % 2 = 0 => matches
        /\ matches => counted' = [counted EXCEPT ![latest][NextLine] = @ + 1]
        /\ ~matches => counted' = counted
        /\ eventCounts' \in Nat /\ due' = FALSE
  <2>1. eventCounts \in Nat
    BY <1>1 DEF LogTypeOK, ServerTypeOK, HistoryTypeOK
  <2>2. /\ \A n \in Nat : SendIfNeeded(n) => eventCounts' \in Nat /\ due' = FALSE
        /\ eventCounts + 1 \in Nat
    BY <2>1 DEF SendIfNeeded
  <2>3. QED
    BY <2>1, <2>2
<1>5. /\ counted' \in [Files -> [Lines -> Nat]]
      /\ \A f \in Files, l \in Lines :
           counted'[f][l] =
             IF matches /\ f = latest /\ l = NextLine THEN counted[f][l] + 1 ELSE counted[f][l]
  <2>1. CASE matches
    <3>1. counted[latest] \in [Lines -> Nat] /\ counted[latest][NextLine] + 1 \in Nat
      BY <1>1, <1>2 DEF LogTypeOK, ServerTypeOK, HistoryTypeOK
    <3>2. [counted[latest] EXCEPT ![NextLine] = @ + 1] \in [Lines -> Nat]
      BY <3>1
    <3>3. counted' = [counted EXCEPT ![latest] = [counted[latest] EXCEPT ![NextLine] = @ + 1]]
      BY <1>4, <2>1
    <3>4. counted' \in [Files -> [Lines -> Nat]]
      BY <1>1, <3>2, <3>3 DEF LogTypeOK, ServerTypeOK, HistoryTypeOK
    <3>5. QED
      BY <1>1, <1>2, <2>1, <3>1, <3>3, <3>4 DEF LogTypeOK, ServerTypeOK, HistoryTypeOK
  <2>2. CASE ~matches
    BY <1>1, <1>4, <2>2 DEF LogTypeOK, ServerTypeOK, HistoryTypeOK
  <2>3. QED
    BY <2>1, <2>2
<1>6. LogTypeOK'
  <2>1. handle' => latest' # 0 /\ pos' <= pieces'[latest']
    BY <1>1, <1>2, <1>3 DEF serverVars
  <2>2. HistoryTypeOK'
    BY <1>1, <1>3, <1>5 DEF LogTypeOK, HistoryTypeOK
  <2>3. ServerTypeOK'
    BY <1>1 DEF LogTypeOK, ServerTypeOK, serverVars
  <2>4. latest' \in 0 .. newest' /\ previous' \in 0 .. newest' /\ linesRead' \in Nat
    BY <1>1 DEF LogTypeOK, serverVars
  <2>5. QED
    BY <1>1, <1>2, <1>3, <1>4, <2>1, <2>2, <2>3, <2>4, Zenon DEF LogTypeOK
<1>7. OldestFirst'
  BY <1>1 DEF LInv, OldestFirst
<1>8. Ahead'
  <2>1. ASSUME NEW l \in Lines, 2 * l > 2 * NextLine
        PROVE  counted'[latest][l] < opened[latest]
    <3>1. l # NextLine /\ 2 * l > pos
      BY <1>1, <1>2, <2>1 DEF Lines
    <3>2. QED
      BY <1>1, <1>5, <3>1 DEF LInv, Ahead
  <2>2. pos' % 2 # 1
    BY <1>2, <1>3
  <2>3. QED
    BY <1>3, <2>1, <2>2 DEF Ahead
<1>9. NoLineTwicePerOpening'
  <2>1. counted[latest][NextLine] < opened[latest]
    BY <1>1, <1>2 DEF LInv, Ahead
  <2>2. counted[latest][NextLine] \in Nat /\ opened[latest] \in Nat
    BY <1>1, <1>2 DEF LogTypeOK, ServerTypeOK, HistoryTypeOK
  <2>3. QED
    BY <1>5, <2>1, <2>2 DEF LInv, LinesCounted, NoLineTwicePerOpening
<1>10. NothingPassedOver'
  <2> SUFFICES ASSUME NEW f \in Files, NEW l \in Lines,
                      begun[f] < 2 * l, 2 * l <= reached'[f], <<f, l>> \notin torn
               PROVE  counted'[f][l] > 0
    BY DEF NothingPassedOver
  <2>1. counted[f][l] \in Nat /\ l \in Nat
    <3>1. counted \in [Files -> [Lines -> Nat]]
      BY <1>1 DEF LogTypeOK, HistoryTypeOK
    <3>2. QED
      BY <3>1 DEF Lines
  <2>2. CASE 2 * l <= reached[f]
    <3>1. counted[f][l] > 0
      BY <2>2 DEF LInv, LinesCounted, NothingPassedOver
    <3>2. QED
      BY <1>5, <2>1, <3>1
  <2>3. CASE ~(2 * l <= reached[f])
    <3>1. f = latest /\ 2 * l <= 2 * NextLine /\ 2 * l > pos
      BY <1>1, <1>2, <1>3, <2>1, <2>3
    <3>2. l = NextLine
      BY <1>2, <3>1
    <3>3. pos % 2 # 1
      BY <1>1, <3>1, <3>2 DEF LInv, Ahead
    <3>4. pos % 2 = 0
      BY <1>1, <3>3, Halves
    <3>5. QED
      BY <1>4, <1>5, <2>1, <3>1, <3>2, <3>4
  <2>4. QED
    BY <2>2, <2>3
<1>11. QED
  BY <1>6, <1>7, <1>8, <1>9, <1>10 DEF LInv, LinesCounted

\* The end of the file, where what there is of a line is thrown away.
LEMMA ReachEOFInv ==
  ASSUME LInv, ReachEOF
  PROVE  LInv'
<1> USE Bounds DEF ReachEOF
<1> DEFINE end == pieces[latest]
<1>1. /\ LogTypeOK /\ handle /\ latest # 0 /\ latest \in Files /\ pos \in Nat
      /\ pos <= reached[latest] /\ reached[latest] \in Nat
      /\ end \in 0 .. MaxPieces /\ pos <= end
  BY Whereabouts
<1>2. /\ end < 2 * NextLine
      /\ \A l \in Lines : ~(pos < 2 * l /\ 2 * l <= end)
      /\ end % 2 = 1 => NextLine \in Lines /\ end \div 2 + 1 = NextLine
  <2>1. /\ pos \div 2 \in Nat
        /\ pos = 2 * (pos \div 2) \/ pos = 2 * (pos \div 2) + 1
    BY <1>1, Halves
  <2>2. NextLine = pos \div 2 + 1 /\ 2 * NextLine > end
    BY <1>1, <2>1 DEF NextLine, Complete
  <2>3. end % 2 = 1 => end = 2 * (end \div 2) + 1 /\ end \div 2 \in Nat
    BY <1>1, Halves
  <2>4. end % 2 = 1 => NextLine \in Lines /\ end \div 2 + 1 = NextLine
    BY <1>1, <2>1, <2>2, <2>3 DEF Lines
  <2>5. \A l \in Lines : ~(pos < 2 * l /\ 2 * l <= end)
    BY <1>1, <2>1, <2>2 DEF Lines
  <2>6. QED
    BY <2>2, <2>4, <2>5
<1>3. /\ pos' = end
      /\ reached' \in [Files -> 0 .. MaxPieces]
      /\ \A f \in Files \ {latest} : reached'[f] = reached[f]
      /\ reached'[latest] >= end
      /\ reached'[latest] \in {reached[latest], end}
  BY <1>1, ReachIs
<1>4. /\ torn' \subseteq Files \X Lines /\ torn \subseteq torn'
      /\ end % 2 = 1 => <<latest, NextLine>> \in torn'
  BY <1>1, <1>2 DEF LogTypeOK, ServerTypeOK, HistoryTypeOK
<1>5. pieces' = pieces /\ NextLine' = end \div 2 + 1
  BY <1>3 DEF serverVars, NextLine
<1> HIDE DEF end
<1>6. LogTypeOK'
  <2>1. handle' => latest' # 0 /\ pos' <= pieces'[latest']
    BY <1>1, <1>3, <1>5 DEF end
  <2>2. pos' \in 0 .. MaxPieces
    BY <1>1, <1>3
  <2>3. QED
    BY <1>1, <1>3, <1>4, <2>1, <2>2 DEF LogTypeOK, ServerTypeOK, HistoryTypeOK, serverVars
<1>7. OldestFirst'
  BY <1>1 DEF LInv, OldestFirst
<1>8. Ahead'
  <2>1. ASSUME NEW l \in Lines, 2 * l > end PROVE counted[latest][l] < opened[latest]
    <3>1. 2 * l > pos
      BY <1>1, <2>1 DEF Lines
    <3>2. QED
      BY <1>1, <3>1 DEF LInv, Ahead
  <2>2. pos' % 2 = 1 => <<latest, NextLine'>> \in torn'
    BY <1>2, <1>3, <1>4, <1>5
  <2>3. QED
    BY <1>3, <2>1, <2>2 DEF Ahead
<1>9. NoLineTwicePerOpening'
  BY DEF LInv, LinesCounted, NoLineTwicePerOpening
<1>10. NothingPassedOver'
  <2> SUFFICES ASSUME NEW f \in Files, NEW l \in Lines,
                      begun[f] < 2 * l, 2 * l <= reached'[f], <<f, l>> \notin torn'
               PROVE  counted[f][l] > 0
    BY DEF NothingPassedOver
  <2>1. 2 * l <= reached[f]
    BY <1>1, <1>2, <1>3 DEF Lines
  <2>2. QED
    BY <1>4, <2>1 DEF LInv, LinesCounted, NothingPassedOver
<1>11. QED
  BY <1>6, <1>7, <1>8, <1>9, <1>10 DEF LInv, LinesCounted

\* Every step preserves the invariant.
LEMMA LogNextInv == LInv /\ [LogNext]_logVars => LInv'
<1> SUFFICES ASSUME LInv, [LogNext]_logVars PROVE LInv'
  OBVIOUS
<1> USE Bounds
<1>t. LogTypeOK /\ newest \in Nat /\ newest >= 1 /\ newest <= MaxFiles
  BY Whereabouts
<1>l. LinesCounted /\ UNCHANGED history => LinesCounted'
  BY DEF LinesCounted, NoLineTwicePerOpening, NothingPassedOver, history
<1>h. UNCHANGED history => HistoryTypeOK'
  BY <1>t DEF LogTypeOK, HistoryTypeOK, history
<1>s. UNCHANGED serverVars => ServerTypeOK'
  BY <1>t DEF LogTypeOK, ServerTypeOK, serverVars
<1>1. CASE Stop \/ Refresh \/ OpenFails
  <2> USE <1>1 DEF Stop, Refresh, OpenFails, serverVars, position, history
  <2>1. pc' \in {"config", "stopped"}
    OBVIOUS
  <2>2. LogTypeOK'
    BY <1>t, <1>h, <1>s, <2>1 DEF LogTypeOK
  <2>3. OldestFirst' /\ Ahead'
    BY <2>1 DEF LInv, OldestFirst, Ahead, NextLine
  <2>4. QED
    BY <1>l, <2>2, <2>3 DEF LInv
<1>2. CASE Configure
  <2> USE <1>2 DEF Configure, serverVars, history
  <2>1. handle => latest' = latest /\ latest # 0
    BY DEF LInv, OldestFirst, LogTypeOK, ServerTypeOK, HistoryTypeOK
  <2>2. LogTypeOK'
    BY <1>t, <2>1 DEF LogTypeOK, ServerTypeOK, HistoryTypeOK
  <2>3. OldestFirst' /\ Ahead'
    BY <1>t, <2>1 DEF LInv, OldestFirst, Ahead, NextLine
  <2>4. QED
    BY <1>l, <2>2, <2>3 DEF LInv
<1>3. CASE Open
  BY <1>3, OpenInv
<1>4. CASE ReadLine
  BY <1>4, ReadLineInv
<1>5. CASE ReachEOF
  BY <1>5, ReachEOFInv
<1>6. CASE SwitchFile
  <2> USE <1>6 DEF SwitchFile, serverVars, history
  <2>1. latest' \in Newer /\ handle
    BY Whereabouts
  <2>2. latest' \in 1 .. newest /\ latest' > latest /\ latest # 0 /\ ~firstRun
    BY <1>t, <2>1 DEF Newer, Matching, LInv, OldestFirst, LogTypeOK, ServerTypeOK, HistoryTypeOK
  <2>3. LogTypeOK'
    <3>1. ServerTypeOK' /\ HistoryTypeOK'
      BY <1>h, <1>s
    <3>2. latest' \in 0 .. newest' /\ previous' \in 0 .. newest' /\ linesRead' \in Nat
      BY <1>t, <2>2 DEF LogTypeOK
    <3>3. QED
      BY <1>t, <3>1, <3>2, Zenon DEF LogTypeOK
  <2>4. OldestFirst' /\ Ahead'
    BY <1>t, <2>2 DEF LInv, OldestFirst, Ahead, LogTypeOK, ServerTypeOK, HistoryTypeOK
  <2>5. QED
    BY <1>l, <2>3, <2>4 DEF LInv
<1>7. CASE KeepFile
  <2>1. eventCounts' \in Nat /\ due' \in BOOLEAN
    BY <1>7, <1>t DEF KeepFile, SendIfNeeded, LogTypeOK, ServerTypeOK, HistoryTypeOK
  <2>2. QED
    BY <1>7, <2>1, <1>l
       DEF KeepFile, serverVars, position, history, LInv, LogTypeOK, ServerTypeOK, HistoryTypeOK,
       OldestFirst, Ahead,
       NextLine
<1>8. CASE ReadFails
  <2>1. readErrors' \in 0 .. MaxErrors
    BY <1>8, <1>t, LogAssumption
       DEF ReadFails, LogTypeOK, ServerTypeOK, HistoryTypeOK, LogAssumption
  <2>2. QED
    BY <1>8, <2>1, <1>l
       DEF ReadFails, serverVars, history, LInv, LogTypeOK, ServerTypeOK, HistoryTypeOK,
           OldestFirst, Ahead
<1>9. CASE Write
  <2> USE <1>9 DEF Write, position, history
  <2>1. /\ newest \in Files /\ pieces[newest] + 1 \in 0 .. MaxPieces
        /\ pieces' \in [Files -> 0 .. MaxPieces]
        /\ \A f \in Files : pieces'[f] >= pieces[f]
    BY <1>t DEF LogTypeOK, ServerTypeOK, HistoryTypeOK
  <2>2. handle => latest # 0 /\ pos <= pieces'[latest]
    <3>1. handle => latest \in Files /\ pieces[latest] \in Nat /\ pos \in Nat
      BY Whereabouts
    <3>2. handle => pieces'[latest] \in Nat /\ pieces'[latest] >= pieces[latest]
      BY <2>1, <3>1
    <3>3. QED
      BY <3>1, <3>2, Whereabouts
  <2>3. LogTypeOK'
    <3>1. ServerTypeOK' /\ HistoryTypeOK'
      BY <1>t, <1>h, <2>1 DEF LogTypeOK, ServerTypeOK
    <3>2. QED
      BY <1>t, <2>2, <3>1, Zenon DEF LogTypeOK
  <2>4. OldestFirst' /\ Ahead'
    BY DEF LInv, OldestFirst, Ahead, NextLine
  <2>5. QED
    BY <1>l, <2>3, <2>4 DEF LInv
<1>10. CASE Rotate
  <2> USE <1>10 DEF Rotate, position, history
  <2>1. /\ newest' \in Files
        /\ latest \in 0 .. newest' /\ previous \in 0 .. newest'
    BY <1>t DEF LogTypeOK, ServerTypeOK, HistoryTypeOK, Files
  <2>2. LogTypeOK'
    BY <1>t, <2>1 DEF LogTypeOK, ServerTypeOK, HistoryTypeOK
  <2>3. OldestFirst' /\ Ahead'
    BY DEF LInv, OldestFirst, Ahead, NextLine
  <2>4. QED
    BY <1>l, <2>2, <2>3 DEF LInv
<1>11. CASE Remove
  <2> USE <1>11 DEF Remove, position, history
  <2>1. removed' \subseteq Files
    BY <1>t DEF LogTypeOK, ServerTypeOK, HistoryTypeOK, Files
  <2>2. LogTypeOK'
    BY <1>t, <2>1 DEF LogTypeOK, ServerTypeOK, HistoryTypeOK
  <2>3. OldestFirst' /\ Ahead'
    BY DEF LInv, OldestFirst, Ahead, NextLine
  <2>4. QED
    BY <1>l, <2>2, <2>3 DEF LInv
<1>12. CASE IntervalPasses \/ UNCHANGED logVars
  <2> USE <1>12 DEF IntervalPasses, logVars, serverVars, position, history
  <2>1. LogTypeOK'
    <3>1. ServerTypeOK' /\ HistoryTypeOK'
      BY <1>h, <1>s
    <3>2. due' \in BOOLEAN
      BY <1>t DEF LogTypeOK
    <3>3. UNCHANGED <<newest, pieces, pc, position, eventCounts, readErrors>>
      OBVIOUS
    <3>4. QED
      BY <1>t, <3>1, <3>2, <3>3 DEF LogTypeOK
  <2>2. OldestFirst' /\ Ahead'
    BY DEF LInv, OldestFirst, Ahead, NextLine
  <2>3. QED
    BY <1>l, <2>1, <2>2 DEF LInv
<1>13. QED
  BY <1>1, <1>2, <1>3, <1>4, <1>5, <1>6, <1>7, <1>8, <1>9, <1>10, <1>11, <1>12
     DEF LogNext, OuterLoop, Read, AfterSleep

-----------------------------------------------------------------------------
(* Theorems.                                                               *)

\* The invariant of logparseLoop.
THEOREM LogInvariance == LogSpec => []LInv
<1>1. QED
  BY LogInitInv, LogNextInv, PTL DEF LogSpec

\* The reader has a file open when it reads, and never stands behind its end.
THEOREM LogTypesOK == LogSpec => []LogTypeOK
<1>1. LInv => LogTypeOK
  BY DEF LInv
<1>2. QED
  BY <1>1, LogInvariance, PTL

\* Of what the reader has passed every whole line is counted, and no line more often
\* than its file was opened, whatever is rotated, removed or fails.
THEOREM LinesAreCounted == LogSpec => []LinesCounted
<1>1. LInv => LinesCounted
  BY DEF LInv
<1>2. QED
  BY <1>1, LogInvariance, PTL

\* The lines that logparseLoop is to skip in a file it has read before are never skipped.
THEOREM NothingIsSkipped == LogSpec => []SkippingIsDead
<1>1. LInv => SkippingIsDead
  BY DEF LInv, OldestFirst, SkippingIsDead, LogTypeOK, ServerTypeOK, HistoryTypeOK
<1>2. QED
  BY <1>1, LogInvariance, PTL
=============================================================================
