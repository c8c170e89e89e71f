-------------------------- MODULE DryRunWorkerProofs --------------------------
(***************************************************************************)
(* What the files of the dry-run worker hold, proved for any number of     *)
(* passes and of cuts, and for whatever files the dashboard is given.      *)
(***************************************************************************)
EXTENDS DryRunWorker, TLAPS

-----------------------------------------------------------------------------
(* Files of lines *)

\* A line is the last one or before it.
LEMMA LastOrBefore == \A len \in Nat : \A i \in 1..len : i = len \/ i \in 1..(len - 1)
OBVIOUS

\* An open line exists.
LinesOK(file) == /\ file \in LineFile
                 /\ file.open => Len(file.lines) > 0

\* lines are those of file with the last one garbled or another one added.
Written(file, n, lines) ==
  /\ lines \in Seq(Nat)
  /\ Len(lines) > 0
  /\ lines[Len(lines)] = (IF file.open THEN Garbled ELSE n)
  /\ Len(lines) = (IF file.open THEN Len(file.lines) ELSE Len(file.lines) + 1)
  /\ \A i \in 1..(Len(lines) - 1) : i \in 1..Len(file.lines) /\ lines[i] = file.lines[i]

\* That is what a write does.
LEMMA JoinedIsWritten ==
  ASSUME NEW file, LinesOK(file), NEW n \in Nat
  PROVE  Written(file, n, Joined(file, n))
<1>1. /\ file.lines \in Seq(Nat) /\ file.open \in BOOLEAN
      /\ Len(file.lines) \in Nat /\ DOMAIN file.lines = 1..Len(file.lines)
  BY DEF LinesOK, LineFile
<1>2. CASE file.open
  <2>1. Joined(file, n) = [file.lines EXCEPT ![Len(file.lines)] = Garbled] /\ Len(file.lines) > 0
    BY <1>2 DEF Joined, LinesOK
  <2>2. Joined(file, n) \in Seq(Nat) /\ Len(Joined(file, n)) = Len(file.lines)
    BY <1>1, <2>1 DEF Garbled
  <2>3. Joined(file, n)[Len(file.lines)] = Garbled
    BY <1>1, <2>1
  <2>4. \A i \in 1..(Len(file.lines) - 1) : Joined(file, n)[i] = file.lines[i]
    BY <1>1, <2>1
  <2>. QED
    BY <1>1, <1>2, <2>1, <2>2, <2>3, <2>4 DEF Written
<1>3. CASE ~file.open
  <2>1. Joined(file, n) = Append(file.lines, n)
    BY <1>3 DEF Joined
  <2>. QED
    BY <1>1, <1>3, <2>1 DEF Written
<1>. QED
  BY <1>2, <1>3

\* What is recorded after a write: nothing but the new record is added, and nothing
\* but an open line is lost.
LEMMA RecordedAfter ==
  ASSUME NEW file, LinesOK(file), NEW n \in Nat,
         NEW new \in LineFile, Written(file, n, new.lines)
  PROVE  /\ LinesOK(new)
         /\ Recorded(new) \subseteq Recorded(file) \cup {n}
         /\ ~file.open /\ n # Garbled => n \in Recorded(new)
         /\ \A r \in Recorded(file) \ Recorded(new) :
              file.open /\ r = file.lines[Len(file.lines)]
<1>1. /\ file.lines \in Seq(Nat) /\ file.open \in BOOLEAN
      /\ DOMAIN file.lines = 1..Len(file.lines) /\ Len(file.lines) \in Nat
  BY DEF LinesOK, LineFile
<1>2. DOMAIN new.lines = 1..Len(new.lines) /\ Len(new.lines) \in Nat
  BY DEF Written
<1>3. LinesOK(new)
  BY DEF LinesOK, LineFile, Written
<1>4. ASSUME NEW i \in 1..Len(new.lines), new.lines[i] # Garbled
      PROVE  new.lines[i] \in Recorded(file) \cup {n}
  <2>1. CASE i = Len(new.lines)
    BY <1>4, <2>1 DEF Written
  <2>2. CASE i \in 1..(Len(new.lines) - 1)
    BY <1>1, <1>4, <2>2 DEF Recorded, Written
  <2>. QED
    BY <1>2, <1>4, <2>1, <2>2, LastOrBefore, Zenon
<1>5. ~file.open /\ n # Garbled => n \in Recorded(new)
  <2>1. Len(new.lines) \in DOMAIN new.lines
    BY <1>2 DEF Written
  <2>. QED
    BY <1>2, <2>1 DEF Recorded, Written
<1>6. ASSUME NEW r \in Recorded(file) \ Recorded(new)
      PROVE  file.open /\ r = file.lines[Len(file.lines)]
  <2>1. PICK i \in 1..Len(file.lines) : r = file.lines[i] /\ r # Garbled
    BY <1>1, <1>6 DEF Recorded
  <2>2. i \notin 1..(Len(new.lines) - 1)
    <3>1. SUFFICES ASSUME i \in 1..(Len(new.lines) - 1)
                   PROVE  FALSE
      OBVIOUS
    <3>2. i \in DOMAIN new.lines /\ new.lines[i] = r
      BY <1>2, <2>1, <3>1 DEF Written
    <3>. QED
      BY <1>2, <1>6, <2>1, <3>2 DEF Recorded
  <2>3. i >= Len(new.lines)
    BY <1>2, <2>2
  <2>. QED
    BY <1>1, <1>2, <2>1, <2>3 DEF Written
<1>7. Recorded(new) \subseteq Recorded(file) \cup {n}
  BY <1>2, <1>4 DEF Recorded
<1>. QED
  BY <1>3, <1>5, <1>6, <1>7

\* Records are in the order of their numbers.
Sorted(file) == \A i, j \in DOMAIN file.lines :
                  i < j /\ file.lines[j] # Garbled => file.lines[i] < file.lines[j]

\* A write of a record newer than all that are there keeps the order.
LEMMA SortedAfter ==
  ASSUME NEW file, LinesOK(file), Sorted(file), NEW n \in Nat,
         NEW new \in LineFile, Written(file, n, new.lines),
         n # Garbled => \A r \in Recorded(file) : r < n
  PROVE  Sorted(new)
<1>1. /\ file.lines \in Seq(Nat) /\ DOMAIN file.lines = 1..Len(file.lines)
      /\ Len(file.lines) \in Nat /\ file.open \in BOOLEAN
  BY DEF LinesOK, LineFile
<1>2. DOMAIN new.lines = 1..Len(new.lines) /\ Len(new.lines) \in Nat
  BY DEF Written
<1>3. SUFFICES ASSUME NEW i \in 1..Len(new.lines), NEW j \in 1..Len(new.lines),
                      i < j, new.lines[j] # Garbled
               PROVE  new.lines[i] < new.lines[j]
  BY <1>2 DEF Sorted
<1>4. i \in 1..(Len(new.lines) - 1)
  BY <1>2, <1>3
<1>5. new.lines[i] = file.lines[i] /\ i \in DOMAIN file.lines
  BY <1>1, <1>4 DEF Written
<1>6. CASE j = Len(new.lines)
  <2>1. new.lines[j] = n /\ n # Garbled
    BY <1>3, <1>6 DEF Written
  <2>2. CASE new.lines[i] = Garbled
    BY <2>1, <2>2 DEF Garbled
  <2>3. CASE new.lines[i] # Garbled
    BY <1>5, <2>1, <2>3 DEF Recorded
  <2>. QED
    BY <2>2, <2>3
<1>7. CASE j \in 1..(Len(new.lines) - 1)
  <2>1. j \in DOMAIN file.lines /\ new.lines[j] = file.lines[j]
    BY <1>1, <1>7 DEF Written
  <2>. QED
    BY <1>3, <1>5, <2>1 DEF Sorted
<1>. QED
  BY <1>2, <1>3, <1>6, <1>7, LastOrBefore, Zenon

\* A write that came through.
LEMMA AfterAppend ==
  ASSUME NEW file, LinesOK(file), NEW n \in Nat, NEW new, new = AppendLine(file, n)
  PROVE  /\ LinesOK(new) /\ ~new.open
         /\ Recorded(new) \subseteq Recorded(file) \cup {n}
         /\ ~file.open /\ n # Garbled => n \in Recorded(new)
         /\ \A r \in Recorded(file) \ Recorded(new) : file.open /\ r = file.lines[Len(file.lines)]
         /\ Sorted(file) /\ (\A r \in Recorded(file) : r < n) => Sorted(new)
<1>1. new = [lines |-> Joined(file, n), open |-> FALSE]
  BY DEF AppendLine
<1>2. Written(file, n, new.lines)
  BY <1>1, JoinedIsWritten
<1>3. new \in LineFile /\ ~new.open
  BY <1>1, <1>2 DEF LineFile, Written
<1>4. /\ LinesOK(new)
      /\ Recorded(new) \subseteq Recorded(file) \cup {n}
      /\ ~file.open /\ n # Garbled => n \in Recorded(new)
      /\ \A r \in Recorded(file) \ Recorded(new) : file.open /\ r = file.lines[Len(file.lines)]
  BY <1>2, <1>3, RecordedAfter
<1>5. Sorted(file) /\ (\A r \in Recorded(file) : r < n) => Sorted(new)
  BY <1>2, <1>3, SortedAfter
<1>. QED
  BY <1>3, <1>4, <1>5

\* A write that was cut.
LEMMA AfterCut ==
  ASSUME NEW file, LinesOK(file), NEW n \in Nat, NEW new \in CutAppends(file, n)
  PROVE  /\ LinesOK(new)
         /\ \/ new = file
            \/ new.open /\ new.lines[Len(new.lines)] \in {Garbled, n}
         /\ Recorded(new) \subseteq Recorded(file) \cup {n}
         /\ \A r \in Recorded(file) \ Recorded(new) : file.open /\ r = file.lines[Len(file.lines)]
         /\ Sorted(file) /\ (\A r \in Recorded(file) : r < n) => Sorted(new)
<1>1. CASE new = file
  BY <1>1
<1>2. CASE new # file
  <2>1. PICK m \in {Garbled, n} : new = [lines |-> Joined(file, m), open |-> TRUE]
    BY <1>2 DEF CutAppends
  <2>2. m \in Nat
    BY DEF Garbled
  <2>3. Written(file, m, new.lines)
    BY <2>1, <2>2, JoinedIsWritten
  <2>4. new \in LineFile /\ new.open
    BY <2>1, <2>3 DEF LineFile, Written
  <2>5. /\ LinesOK(new)
        /\ Recorded(new) \subseteq Recorded(file) \cup {m}
        /\ \A r \in Recorded(file) \ Recorded(new) : file.open /\ r = file.lines[Len(file.lines)]
    BY <2>2, <2>3, <2>4, RecordedAfter
  <2>6. Garbled \notin Recorded(new)
    BY DEF Recorded
  <2>7. new.lines[Len(new.lines)] \in {Garbled, n}
    BY <2>3 DEF Written
  <2>8. Sorted(file) /\ (\A r \in Recorded(file) : r < n) => Sorted(new)
    BY <2>2, <2>3, <2>4, SortedAfter
  <2>. QED
    BY <2>4, <2>5, <2>6, <2>7, <2>8
<1>. QED
  BY <1>1, <1>2

\* Several lines, the last of which tells of a record.
LEMMA AfterLog ==
  ASSUME NEW file, LinesOK(file), NEW n \in Nat, NEW new \in LogLines(file, n)
  PROVE  LinesOK(new) /\ Recorded(new) \subseteq Recorded(file) \cup {n}
<1>. DEFINE closed == AppendLine(file, Garbled)
            begun == IF file.open THEN closed ELSE file
<1>1. Garbled \in Nat /\ \A f : Garbled \notin Recorded(f)
  BY DEF Garbled, Recorded
<1>2. LinesOK(closed) /\ Recorded(closed) \subseteq Recorded(file)
  BY <1>1, AfterAppend
<1>3. LinesOK(begun) /\ Recorded(begun) \subseteq Recorded(file)
  BY <1>2
<1>4. new = AppendLine(begun, n) \/ new \in CutAppends(begun, n) \/ new \in CutAppends(file, Garbled)
  BY DEF LogLines
<1>. HIDE DEF begun
<1>5. CASE new = AppendLine(begun, n)
  BY <1>3, <1>5, AfterAppend
<1>6. CASE new \in CutAppends(begun, n)
  BY <1>3, <1>6, AfterCut
<1>7. CASE new \in CutAppends(file, Garbled)
  BY <1>1, <1>7, AfterCut
<1>. QED
  BY <1>4, <1>5, <1>6, <1>7

-----------------------------------------------------------------------------
(* Types *)

Typed == TypeOK /\ LinesOK(history) /\ LinesOK(opLog)

LEMMA TypedInit == Init => Typed
<1>1. NoLines \in LineFile /\ ~NoLines.open
  BY DEF NoLines, LineFile
<1>2. Missing \in File
  BY DEF Missing, File
<1>3. 0 \in Nat
  OBVIOUS
<1>. QED
  <2>1. [source |-> "empty_fallback", rec |-> 0] \in Answer
    BY DEF Answer
  <2>. QED
    BY <1>1, <1>2, <1>3, <2>1, Zenon DEF Init, Typed, TypeOK, LinesOK

LEMMA TypedStep == Typed /\ [Next]_vars => Typed'
<1>. SUFFICES ASSUME Typed, [Next]_vars
              PROVE  Typed'
  OBVIOUS
<1>. USE DEF Typed
<1>1. LinesOK(history') /\ LinesOK(opLog')
  <2>1. pass \in Nat
    BY DEF TypeOK
  <2>2. \/ history' = history
        \/ history' = AppendLine(history, pass)
        \/ history' \in CutAppends(history, pass)
    BY DEF Next, vars, Start, Work, BuildPayload, OpenLatest, WriteLatest, AppendHistory,
           WriteEvents, Wake, PassIsCut, Killed, Stop, Show
  <2>3. opLog' = opLog \/ opLog' \in LogLines(opLog, pass)
    BY DEF LogEvents, Next, vars, Start, Work, BuildPayload, OpenLatest, WriteLatest, AppendHistory,
           WriteEvents, Wake, PassIsCut, Killed, Stop, Show
  <2>. QED
    BY <2>1, <2>2, <2>3, AfterAppend, AfterCut, AfterLog
<1>2. TypeOK'
  <2>. USE DEF TypeOK, Running, End, Cut, BeginPass, process, LinesOK
  <2>1. CASE Start
    <3>1. pass' \in Nat
      BY <2>1 DEF Start
    <3>. QED
      BY <2>1, <3>1, Zenon DEF Start
  <2>2. CASE BuildPayload
    BY <2>2 DEF BuildPayload
  <2>3. CASE OpenLatest
    BY <2>3 DEF OpenLatest, Torn, File
  <2>4. CASE WriteLatest
    BY <2>4 DEF WriteLatest, Whole, File
  <2>5. CASE AppendHistory
    BY <1>1, <2>5 DEF AppendHistory
  <2>6. CASE WriteEvents
    BY <1>1, <2>6 DEF WriteEvents
  <2>7. CASE Wake
    <3>1. pass' \in Nat
      BY <2>7 DEF Wake
    <3>. QED
      BY <2>7, <3>1, Zenon DEF Wake
  <2>8. CASE PassIsCut
    <3>1. Whole(pass) \in File
      BY DEF Whole, File
    <3>2. latest' \in File /\ published' \subseteq Nat /\ cut' \subseteq Nat
      BY <2>8, <3>1 DEF PassIsCut
    <3>. QED
      BY <1>1, <2>8, <3>2, Zenon DEF PassIsCut
  <2>9. CASE Killed
    BY <1>1, <2>9 DEF Killed
  <2>10. ASSUME NEW s \in Signal, Stop(s)
         PROVE  TypeOK'
    BY <2>10 DEF Stop
  <2>11. CASE Show
    <3>1. LoadHedgePlans(Snapshot, latest, Example) \in Answer
      BY WorkerAssumption DEF LoadHedgePlans, Served, File, Answer
    <3>. QED
      BY <2>11, <3>1 DEF Show
  <2>12. CASE UNCHANGED vars
    BY <2>12 DEF vars
  <2>. QED
    BY <2>1, <2>2, <2>3, <2>4, <2>5, <2>6, <2>7, <2>8, <2>9, <2>10, <2>11, <2>12 DEF Next, Work
<1>. QED
  BY <1>1, <1>2

\* The variables of the worker, its files and the dashboard keep their types.
THEOREM TypeCorrect == Spec => []TypeOK
<1>1. Typed => TypeOK
  BY DEF Typed
<1>. QED
  BY TypedInit, TypedStep, <1>1, PTL DEF Spec

-----------------------------------------------------------------------------
(* The inductive invariant *)

\* Records are numbered as passes are; a pass is published by its own write, recorded
\* by its own append, and cut at most where it ends.
Numbered ==
  /\ \A n \in published \cup cut : 0 < n /\ n <= pass
  /\ pc # "down" => pass > 0 /\ pass \notin cut
  /\ pc \in {"fetch", "open", "write"} => pass \notin published
  /\ pc \in {"append", "events", "delay"} => pass \in published
  /\ pc = "append" => pass \notin Recorded(history) \cup Recorded(opLog)

\* A history whose last line is open was left so by a pass that was cut, and the last
\* pass to have published a record, unless the next is just about to append, was cut.
OpenLine ==
  history.open =>
    /\ history.lines[Len(history.lines)] \in cut \cup {Garbled}
    /\ \E m \in cut \cap published :
         \A k \in published : k <= m \/ (pc = "append" /\ k = pass)

ShownIsPublished == shown.source = "latest" => Snapshot = Missing /\ shown.rec \in published

Store == /\ Typed
         /\ Numbered
         /\ OpenLine
         /\ ShownIsPublished
         /\ LatestIsNewest
         /\ HistoryIsOfPublished
         /\ CutCostsTwo
         /\ LogTellsTrue

LEMMA StoreInit == Init => Store
<1>. SUFFICES ASSUME Init PROVE Store
  OBVIOUS
<1>1. Recorded(NoLines) = {} /\ DOMAIN NoLines.lines = {} /\ ~NoLines.open
  BY DEF NoLines, Recorded
<1>2. Numbered /\ OpenLine /\ ShownIsPublished
  BY <1>1 DEF Init, Numbered, OpenLine, ShownIsPublished
<1>3. LatestIsNewest /\ CutCostsTwo /\ LogTellsTrue
  BY <1>1 DEF Init, LatestIsNewest, Missing, Torn, CutCostsTwo, LogTellsTrue
<1>4. HistoryIsOfPublished
  BY <1>1 DEF Init, HistoryIsOfPublished
<1>. QED
  BY <1>2, <1>3, <1>4, TypedInit DEF Store

\* The parts of the invariant that speak of the files and of what became of passes.
Kept == Numbered /\ OpenLine /\ LatestIsNewest /\ HistoryIsOfPublished /\ CutCostsTwo

\* A new pass.
LEMMA BeginKeeps ==
  ASSUME Store, BeginPass, pc \in {"down", "delay"},
         UNCHANGED <<latest, history, opLog, published, cut>>
  PROVE  Kept'
<1>. USE DEF Store, Typed, TypeOK
<1>1. pass' = pass + 1 /\ pc' = "fetch" /\ pass \in Nat /\ published \subseteq Nat /\ cut \subseteq Nat
  BY DEF BeginPass
<1>2. Numbered'
  BY <1>1 DEF Numbered
<1>3. OpenLine'
  BY <1>1 DEF OpenLine
<1>4. LatestIsNewest'
  BY <1>1 DEF LatestIsNewest, Missing, Torn
<1>5. HistoryIsOfPublished'
  BY DEF HistoryIsOfPublished
<1>6. CutCostsTwo'
  BY <1>1 DEF CutCostsTwo
<1>. QED
  BY <1>2, <1>3, <1>4, <1>5, <1>6 DEF Kept

\* The latest file is truncated.
LEMMA OpenKeeps ==
  ASSUME Store, OpenLatest
  PROVE  Kept'
<1>. USE DEF Store
<1>1. Numbered' /\ OpenLine'
  BY DEF OpenLatest, Numbered, OpenLine
<1>2. LatestIsNewest'
  BY DEF OpenLatest, LatestIsNewest, Missing, Torn
<1>3. HistoryIsOfPublished' /\ CutCostsTwo'
  BY DEF OpenLatest, HistoryIsOfPublished, CutCostsTwo
<1>. QED
  BY <1>1, <1>2, <1>3 DEF Kept

\* The latest file is filled.
LEMMA WriteKeeps ==
  ASSUME Store, WriteLatest
  PROVE  Kept'
<1>. USE DEF Store, Typed, TypeOK
<1>1. /\ pc = "write" /\ pc' = "append" /\ published' = published \cup {pass}
      /\ pass' = pass /\ history' = history /\ cut' = cut /\ opLog' = opLog
      /\ latest' = Whole(pass) /\ pass \in Nat
  BY DEF WriteLatest
<1>2. \A n \in published : n \in Nat /\ n < pass
  BY <1>1 DEF Numbered
<1>3. Numbered'
  BY <1>1, <1>2 DEF Numbered, HistoryIsOfPublished, LogTellsTrue
<1>4. OpenLine'
  BY <1>1, <1>2 DEF OpenLine
<1>5. LatestIsNewest'
  BY <1>1, <1>2 DEF LatestIsNewest, Whole, Missing, Torn
<1>6. HistoryIsOfPublished'
  BY <1>1 DEF HistoryIsOfPublished
<1>7. CutCostsTwo'
  BY <1>1, <1>2 DEF CutCostsTwo
<1>. QED
  BY <1>3, <1>4, <1>5, <1>6, <1>7 DEF Kept

\* The record is appended: it is recorded, unless it joined an open line.
LEMMA AppendKeeps ==
  ASSUME Store, AppendHistory
  PROVE  Kept'
<1>. USE DEF Store, Typed, TypeOK
<1>1. /\ pc = "append" /\ pc' = "events" /\ published' = published
      /\ pass' = pass /\ latest' = latest /\ cut' = cut /\ opLog' = opLog
      /\ history' = AppendLine(history, pass) /\ pass \in Nat
  BY DEF AppendHistory
<1>2. pass > 0 /\ pass \in published /\ pass \notin Recorded(history) /\ pass \notin cut
  BY <1>1 DEF Numbered
<1>3. \A r \in Recorded(history) : r \in Nat /\ r < pass
  <2>1. Recorded(history) \subseteq published /\ published \subseteq Nat
    BY DEF HistoryIsOfPublished
  <2>2. \A n \in published : n <= pass
    BY DEF Numbered
  <2>3. \A n \in Nat : n <= pass /\ n # pass => n < pass
    BY <1>1
  <2>. QED
    BY <1>2, <2>1, <2>2, <2>3
<1>4. Sorted(history)
  BY DEF HistoryIsOfPublished, Sorted
<1>5. /\ ~history'.open
      /\ Recorded(history') \subseteq Recorded(history) \cup {pass}
      /\ ~history.open => pass \in Recorded(history')
      /\ \A r \in Recorded(history) \ Recorded(history') :
           history.open /\ r = history.lines[Len(history.lines)]
      /\ Sorted(history')
  <2>. HIDE DEF Store, Typed, TypeOK
  <2>1. LinesOK(history)
    BY DEF Store, Typed
  <2>2. pass # Garbled
    BY <1>2 DEF Garbled
  <2>3. \A r \in Recorded(history) : r < pass
    BY <1>3
  <2>. QED
    BY <1>1, <1>4, <2>1, <2>2, <2>3, AfterAppend
<1>6. Numbered'
  BY <1>1 DEF Numbered
<1>7. OpenLine' /\ LatestIsNewest'
  BY <1>1, <1>5 DEF OpenLine, LatestIsNewest
<1>8. HistoryIsOfPublished'
  BY <1>1, <1>2, <1>5 DEF HistoryIsOfPublished, Sorted
<1>9. CutCostsTwo'
  <2>. SUFFICES ASSUME NEW n \in published, n \notin Recorded(history')
                PROVE  \/ n \in cut
                       \/ \E m \in cut \cap published :
                            m < n /\ \A k \in published : k <= m \/ k >= n
    BY <1>1 DEF CutCostsTwo
  <2>1. CASE n = pass
    <3>1. history.open
      BY <1>5, <2>1
    <3>2. PICK m \in cut \cap published : \A k \in published : k <= m \/ k = pass
      BY <1>1, <3>1 DEF OpenLine
    <3>3. m < pass
      BY <1>1, <1>2 DEF Numbered
    <3>. QED
      BY <2>1, <3>2, <3>3
  <2>2. CASE n \in Recorded(history)
    <3>1. n = history.lines[Len(history.lines)] /\ history.open /\ n # Garbled
      BY <1>5, <2>2 DEF Recorded
    <3>. QED
      BY <3>1 DEF OpenLine
  <2>3. CASE n # pass /\ n \notin Recorded(history)
    BY <2>3 DEF CutCostsTwo
  <2>. QED
    BY <2>1, <2>2, <2>3
<1>. QED
  BY <1>6, <1>7, <1>8, <1>9 DEF Kept

\* A pass is cut; its record is in the history or not, and the last line may be open.
LEMMA CutKeeps ==
  ASSUME Store, PassIsCut
  PROVE  Kept'
<1>. USE DEF Store, Typed, TypeOK
<1>1. /\ pc \in {"fetch", "open", "write", "append"} /\ pc' = "down"
      /\ pass' = pass /\ opLog' = opLog /\ cut' = cut \cup {pass} /\ pass \in Nat
  BY DEF PassIsCut, Cut, End
<1>2. pass > 0 /\ pass \notin cut /\ published \subseteq Nat /\ cut \subseteq Nat
  BY <1>1 DEF Numbered
<1>3. \A n \in published \cup cut : 0 < n /\ n <= pass
  BY DEF Numbered
<1>4. CASE pc \in {"fetch", "open", "write"} /\ UNCHANGED <<latest, history, published>>
  <2>1. pass \notin published
    BY <1>4 DEF Numbered
  <2>2. \A n \in published : n < pass
    BY <1>2, <1>3, <2>1, <1>1
  <2>3. Numbered'
    BY <1>1, <1>2, <1>3, <1>4 DEF Numbered
  <2>4. OpenLine'
    BY <1>1, <1>4 DEF OpenLine
  <2>5. LatestIsNewest'
    BY <1>1, <1>4, <2>2 DEF LatestIsNewest
  <2>6. HistoryIsOfPublished'
    BY <1>4 DEF HistoryIsOfPublished
  <2>7. CutCostsTwo'
    BY <1>1, <1>4 DEF CutCostsTwo
  <2>. QED
    BY <2>3, <2>4, <2>5, <2>6, <2>7 DEF Kept
<1>5. CASE pc = "write" /\ latest' = Whole(pass) /\ published' = published \cup {pass}
           /\ history' = history
  <2>1. Numbered'
    BY <1>1, <1>2, <1>3, <1>5 DEF Numbered
  <2>2. OpenLine'
    <3>1. pass \in cut' \cap published' /\ \A k \in published' : k <= pass
      BY <1>1, <1>3, <1>5
    <3>. QED
      BY <1>1, <1>5, <3>1 DEF OpenLine
  <2>3. LatestIsNewest'
    BY <1>1, <1>3, <1>5 DEF LatestIsNewest, Whole, Missing, Torn
  <2>4. HistoryIsOfPublished'
    BY <1>5 DEF HistoryIsOfPublished
  <2>5. CutCostsTwo'
    <3>. SUFFICES ASSUME NEW n \in published', n \notin Recorded(history'), n \notin cut'
                  PROVE  \E m \in cut' \cap published' :
                           m < n /\ \A k \in published' : k <= m \/ k >= n
      BY DEF CutCostsTwo
    <3>1. n \in published /\ n \notin Recorded(history) /\ n \notin cut /\ pc # "append"
      BY <1>1, <1>5
    <3>2. PICK m \in cut \cap published : m < n /\ \A k \in published : k <= m \/ k >= n
      BY <3>1 DEF CutCostsTwo
    <3>3. n <= pass
      BY <1>3, <3>1
    <3>. QED
      BY <1>1, <1>5, <3>2, <3>3
  <2>. QED
    BY <2>1, <2>2, <2>3, <2>4, <2>5 DEF Kept
<1>6. CASE pc = "append" /\ history' \in CutAppends(history, pass)
           /\ UNCHANGED <<latest, published>>
  <2>1. pass \in published /\ pass \notin Recorded(history)
    BY <1>6 DEF Numbered
  <2>2. Recorded(history) \subseteq published
    BY DEF HistoryIsOfPublished
  <2>3. \A r \in Recorded(history) : r < pass
    <3>1. \A n \in Nat : n <= pass /\ n # pass => n < pass
      BY <1>1
    <3>. QED
      BY <1>2, <1>3, <2>1, <2>2, <3>1
  <2>4. Sorted(history)
    BY DEF HistoryIsOfPublished, Sorted
  <2>5. /\ \/ history' = history
           \/ history'.open /\ history'.lines[Len(history'.lines)] \in {Garbled, pass}
        /\ Recorded(history') \subseteq Recorded(history) \cup {pass}
        /\ \A r \in Recorded(history) \ Recorded(history') :
             history.open /\ r = history.lines[Len(history.lines)]
        /\ Sorted(history')
    <3>. HIDE DEF Store, Typed, TypeOK
    <3>1. LinesOK(history)
      BY DEF Store, Typed
    <3>. QED
      BY <1>1, <1>6, <2>3, <2>4, <3>1, AfterCut
  <2>6. Numbered'
    BY <1>1, <1>2, <1>3, <1>6 DEF Numbered
  <2>7. OpenLine'
    <3>1. pass \in cut' \cap published' /\ \A k \in published' : k <= pass
      BY <1>1, <1>3, <1>6, <2>1
    <3>2. history'.open => history'.lines[Len(history'.lines)] \in cut' \cup {Garbled}
      BY <1>1, <2>5 DEF OpenLine
    <3>. QED
      BY <3>1, <3>2 DEF OpenLine
  <2>8. LatestIsNewest'
    BY <1>1, <1>6 DEF LatestIsNewest
  <2>9. HistoryIsOfPublished'
    BY <1>6, <2>1, <2>2, <2>5 DEF HistoryIsOfPublished, Sorted
  <2>10. CutCostsTwo'
    <3>. SUFFICES ASSUME NEW n \in published, n \notin Recorded(history'), n \notin cut'
                  PROVE  \E m \in cut \cap published :
                           m < n /\ \A k \in published : k <= m \/ k >= n
      BY <1>1, <1>6 DEF CutCostsTwo
    <3>1. n # pass /\ n \notin cut
      BY <1>1
    <3>2. n \notin Recorded(history)
      <4>1. SUFFICES ASSUME n \in Recorded(history)
                     PROVE  FALSE
        OBVIOUS
      <4>2. n = history.lines[Len(history.lines)] /\ history.open /\ n # Garbled
        BY <2>5, <4>1 DEF Recorded
      <4>. QED
        BY <3>1, <4>2 DEF OpenLine
    <3>. QED
      BY <3>1, <3>2 DEF CutCostsTwo
  <2>. QED
    BY <2>6, <2>7, <2>8, <2>9, <2>10 DEF Kept
<1>. QED
  BY <1>4, <1>5, <1>6 DEF PassIsCut

\* Steps that leave the latest file, the history and the passes as they are.
LEMMA OthersKeep ==
  ASSUME Store, UNCHANGED <<pass, latest, history, published, cut>>,
         \/ pc' = pc /\ opLog' = opLog
         \/ pc = "fetch" /\ pc' = "open"
         \/ pc \in {"events", "delay"} /\ pc' \in {"down", "delay"}
  PROVE  Kept'
<1>. USE DEF Store
<1>1. Numbered'
  BY DEF Numbered
<1>2. OpenLine'
  BY DEF OpenLine
<1>3. LatestIsNewest'
  BY DEF LatestIsNewest
<1>4. HistoryIsOfPublished'
  BY DEF HistoryIsOfPublished
<1>5. CutCostsTwo'
  BY DEF CutCostsTwo
<1>. QED
  BY <1>1, <1>2, <1>3, <1>4, <1>5 DEF Kept

\* The operator log gets the pass whose record is in both files, or nothing.
LEMMA LogKeeps ==
  ASSUME Store, [Next]_vars
  PROVE  LogTellsTrue'
<1>. USE DEF Store, Typed, TypeOK
<1>1. CASE opLog' = opLog
  <2>1. published \subseteq published'
    BY DEF Next, vars, Start, Work, BuildPayload, OpenLatest, WriteLatest, AppendHistory,
           WriteEvents, Wake, PassIsCut, Killed, Stop, Show
  <2>2. \/ cut' = cut
        \/ /\ cut' = cut \cup {pass}
           /\ pc \in {"fetch", "open", "write", "append"}
    BY DEF Next, vars, Start, Work, BuildPayload, OpenLatest, WriteLatest, AppendHistory,
           WriteEvents, Wake, PassIsCut, Cut, Killed, Stop, Show
  <2>3. pc \in {"fetch", "open", "write", "append"} => pass \notin Recorded(opLog)
    BY DEF Numbered, LogTellsTrue
  <2>. QED
    BY <1>1, <2>1, <2>2, <2>3 DEF LogTellsTrue
<1>2. CASE opLog' # opLog
  <2>1. /\ pc = "events" /\ UNCHANGED <<published, cut>>
        /\ opLog' \in LogLines(opLog, pass)
    BY <1>2 DEF LogEvents, Next, vars, Start, Work, BuildPayload, OpenLatest, WriteLatest, AppendHistory,
                WriteEvents, Wake, PassIsCut, Killed, Stop, Show
  <2>2. Recorded(opLog') \subseteq Recorded(opLog) \cup {pass}
    <3>1. pass \in Nat /\ LinesOK(opLog)
      OBVIOUS
    <3>. QED
      BY <2>1, <3>1, AfterLog
  <2>3. pass \in published \ cut
    BY <2>1 DEF Numbered
  <2>. QED
    BY <2>1, <2>2, <2>3 DEF LogTellsTrue
<1>. QED
  BY <1>1, <1>2

\* What the dashboard shows of the worker was published.
LEMMA ShownKeeps ==
  ASSUME Store, [Next]_vars
  PROVE  ShownIsPublished'
<1>. USE DEF Store
<1>1. CASE shown' = shown
  <2>1. published \subseteq published'
    BY DEF Next, vars, Start, Work, BuildPayload, OpenLatest, WriteLatest, AppendHistory,
           WriteEvents, Wake, PassIsCut, Killed, Stop, Show
  <2>. QED
    BY <1>1, <2>1 DEF ShownIsPublished
<1>2. CASE shown' # shown
  <2>1. /\ shown' = LoadHedgePlans(Snapshot, latest, Example) /\ shown'.source # "error"
        /\ published' = published
    BY <1>2 DEF Next, vars, Start, Work, BuildPayload, OpenLatest, WriteLatest, AppendHistory,
                WriteEvents, Wake, PassIsCut, Killed, Stop, Show
  <2>2. SUFFICES ASSUME shown'.source = "latest"
                 PROVE  Snapshot = Missing /\ shown'.rec \in published
    BY <2>1 DEF ShownIsPublished
  <2>3. Snapshot = Missing /\ latest # Missing /\ shown' = Served("latest", latest)
    BY <2>1, <2>2 DEF LoadHedgePlans, Served
  <2>4. latest.is = "whole" /\ shown'.rec = latest.rec
    BY <2>1, <2>3 DEF Served, Typed, TypeOK, File, Missing, Torn
  <2>. QED
    BY <2>3, <2>4 DEF LatestIsNewest
<1>. QED
  BY <1>1, <1>2

LEMMA StoreStep == Store /\ [Next]_vars => Store'
<1>. SUFFICES ASSUME Store, [Next]_vars
              PROVE  Store'
  OBVIOUS
<1>1. Typed'
  BY TypedStep DEF Store
<1>2. Kept'
  <2>1. CASE Start
    BY <2>1, BeginKeeps DEF Start
  <2>2. CASE BuildPayload
    BY <2>2, OthersKeep DEF BuildPayload
  <2>3. CASE OpenLatest
    BY <2>3, OpenKeeps
  <2>4. CASE WriteLatest
    BY <2>4, WriteKeeps
  <2>5. CASE AppendHistory
    BY <2>5, AppendKeeps
  <2>6. CASE WriteEvents
    BY <2>6, OthersKeep DEF WriteEvents, End
  <2>7. CASE Wake
    BY <2>7, BeginKeeps, OthersKeep DEF Wake, End
  <2>8. CASE PassIsCut
    BY <2>8, CutKeeps
  <2>9. CASE Killed
    BY <2>9, OthersKeep DEF Killed, End
  <2>10. ASSUME NEW s \in Signal, Stop(s)
         PROVE  Kept'
    BY <2>10, OthersKeep DEF Stop
  <2>11. CASE Show
    BY <2>11, OthersKeep DEF Show
  <2>12. CASE UNCHANGED vars
    BY <2>12, OthersKeep DEF vars
  <2>. QED
    BY <2>1, <2>2, <2>3, <2>4, <2>5, <2>6, <2>7, <2>8, <2>9, <2>10, <2>11, <2>12 DEF Next, Work
<1>. QED
  BY <1>1, <1>2, LogKeeps, ShownKeeps DEF Store, Kept

-----------------------------------------------------------------------------
(* The properties *)

\* The inductive invariant holds of every behaviour.
THEOREM StoreIsSound == Spec => []Store
BY StoreInit, StoreStep, PTL DEF Spec

\* The latest file is the newest record, or torn for a reason.
THEOREM LatestIsTheNewest == Spec => []LatestIsNewest
<1>1. Store => LatestIsNewest
  BY DEF Store
<1>. QED
  BY StoreIsSound, <1>1, PTL

\* The history is of published records, in order.
THEOREM HistoryFollows == Spec => []HistoryIsOfPublished
<1>1. Store => HistoryIsOfPublished
  BY DEF Store
<1>. QED
  BY StoreIsSound, <1>1, PTL

\* Every published record that the history lacks was lost to a cut of its own pass or
\* of the pass that published before it.
THEOREM LossIsBounded == Spec => []CutCostsTwo
<1>1. Store => CutCostsTwo
  BY DEF Store
<1>. QED
  BY StoreIsSound, <1>1, PTL

\* The operator log names only passes whose record is in both files.
THEOREM LogIsTrue == Spec => []LogTellsTrue
<1>1. Store => LogTellsTrue
  BY DEF Store
<1>. QED
  BY StoreIsSound, <1>1, PTL

\* The step of RecordedStays: a recorded line is garbled only while it is open.
LEMMA RecordedStep ==
  Store /\ [Next]_vars => (\A n \in Recorded(history) \ Recorded(history)' : n \in cut)
<1>. SUFFICES ASSUME Store, [Next]_vars,
                     NEW n \in Recorded(history) \ Recorded(history')
              PROVE  n \in cut
  OBVIOUS
<1>1. history' # history
  OBVIOUS
<1>2. history' = AppendLine(history, pass) \/ history' \in CutAppends(history, pass)
  BY <1>1 DEF Next, vars, Start, Work, BuildPayload, OpenLatest, WriteLatest, AppendHistory,
              WriteEvents, Wake, PassIsCut, Killed, Stop, Show
<1>3. pass \in Nat /\ LinesOK(history)
  BY DEF Store, Typed, TypeOK
<1>4. history.open /\ n = history.lines[Len(history.lines)]
  BY <1>2, <1>3, AfterAppend, AfterCut
<1>5. n # Garbled
  BY DEF Recorded
<1>. QED
  BY <1>4, <1>5 DEF Store, OpenLine

\* A record leaves the history only if its pass was cut.
THEOREM RecordsStay == Spec => RecordedStays
<1>1. Store /\ [Next]_vars => [\A n \in Recorded(history) \ Recorded(history)' : n \in cut]_vars
  BY RecordedStep
<1>. QED
  BY StoreIsSound, <1>1, PTL DEF Spec, RecordedStays

\* The step of NeverShowsOlder: once a record is published the latest file exists, and
\* what it holds whole is the newest.
LEMMA ShowStep ==
  Store /\ [Next]_vars =>
    (shown.source = "latest" => shown'.source = "latest" /\ shown'.rec >= shown.rec)
<1>. SUFFICES ASSUME Store, [Next]_vars, shown.source = "latest"
              PROVE  shown'.source = "latest" /\ shown'.rec >= shown.rec
  OBVIOUS
<1>1. Snapshot = Missing /\ shown.rec \in published /\ published \subseteq Nat
  BY DEF Store, ShownIsPublished, Typed, TypeOK
<1>2. CASE shown' = shown
  <2>1. \A r \in Nat : r >= r
    OBVIOUS
  <2>2. shown.rec \in Nat
    BY <1>1
  <2>. QED
    BY <1>2, <2>1, <2>2
<1>3. CASE shown' # shown
  <2>1. shown' = LoadHedgePlans(Snapshot, latest, Example) /\ shown'.source # "error"
    BY <1>3 DEF Next, vars, Start, Work, BuildPayload, OpenLatest, WriteLatest, AppendHistory,
                WriteEvents, Wake, PassIsCut, Killed, Stop, Show
  <2>2. latest # Missing
    BY <1>1 DEF Store, LatestIsNewest
  <2>3. shown' = Served("latest", latest)
    BY <1>1, <2>1, <2>2 DEF LoadHedgePlans
  <2>4. latest.is = "whole" /\ shown'.rec = latest.rec /\ shown'.source = "latest"
    BY <2>1, <2>2, <2>3 DEF Served, Store, Typed, TypeOK, File, Missing, Torn
  <2>5. \A n \in published : n <= latest.rec
    BY <2>4 DEF Store, LatestIsNewest
  <2>6. latest.rec \in Nat
    BY DEF Store, Typed, TypeOK, File
  <2>. QED
    BY <1>1, <2>4, <2>5, <2>6
<1>. QED
  BY <1>2, <1>3

\* The dashboard never goes back to an older record or to an example.
THEOREM ShowsNoOlder == Spec => NeverShowsOlder
<1>1. Store /\ [Next]_vars =>
        [shown.source = "latest" => /\ shown'.source = "latest"
                                    /\ shown'.rec >= shown.rec]_vars
  BY ShowStep
<1>. QED
  BY StoreIsSound, <1>1, PTL DEF Spec, NeverShowsOlder

-----------------------------------------------------------------------------
(* A stop *)

\* The most steps a worker that was told to stop still takes.
StepsToEnd == CASE pc = "down"   -> 0
                [] pc = "delay"  -> 1
                [] pc = "events" -> 2
                [] pc = "append" -> 3
                [] pc = "write"  -> 4
                [] pc = "open"   -> 5
                [] pc = "fetch"  -> 6

\* The flag is the process's: it goes with it.
FlagIsOfProcess == pc = "down" => ~stopped

LEMMA FlagStep == FlagIsOfProcess /\ [Next]_vars => FlagIsOfProcess'
BY DEF FlagIsOfProcess, Next, vars, process, Start, BeginPass, Work, BuildPayload, OpenLatest,
       WriteLatest, AppendHistory, WriteEvents, Wake, PassIsCut, Cut, End, Killed, Stop, Show

LEMMA StopStep ==
  FlagIsOfProcess /\ [Next]_vars =>
    (stopped => \/ pc' = "down"
                \/ /\ stopped' /\ pass' = pass
                   /\ pc' = pc \/ StepsToEnd' < StepsToEnd)
<1>. SUFFICES ASSUME FlagIsOfProcess, Next, stopped, pc' # "down", pc' # pc
              PROVE  stopped' /\ pass' = pass /\ StepsToEnd' < StepsToEnd
  BY DEF vars, FlagIsOfProcess, Next, process, Start, BeginPass, Work, BuildPayload, OpenLatest,
         WriteLatest, AppendHistory, WriteEvents, Wake, PassIsCut, Cut, End, Killed, Stop, Show
<1>1. pc # "down"
  BY DEF FlagIsOfProcess
<1>2. /\ UNCHANGED <<stopped, pass>>
      /\ \/ pc = "fetch"  /\ pc' = "open"
         \/ pc = "open"   /\ pc' = "write"
         \/ pc = "write"  /\ pc' = "append"
         \/ pc = "append" /\ pc' = "events"
         \/ pc = "events" /\ pc' = "delay"
  BY <1>1 DEF Next, process, Start, Work, BuildPayload, OpenLatest, WriteLatest, AppendHistory,
              WriteEvents, Wake, PassIsCut, Cut, End, Killed, Stop, Show
<1>. QED
  BY <1>2 DEF StepsToEnd

\* A worker that was told to stop begins no pass after the one at work; it stays
\* told until it is down, and a step that does not bring it nearer to its end leaves
\* it where it is: a second signal or the dashboard. So it is down within six steps
\* of its own, provided that it takes them (StopEnds).
THEOREM StopsAreShort ==
  Spec => [][stopped => \/ pc' = "down"
                        \/ /\ stopped' /\ pass' = pass
                           /\ pc' = pc \/ StepsToEnd' < StepsToEnd]_vars
<1> DEFINE Nearer == stopped => \/ pc' = "down"
                                \/ /\ stopped' /\ pass' = pass
                                   /\ pc' = pc \/ StepsToEnd' < StepsToEnd
<1>1. Init => FlagIsOfProcess
  BY DEF Init, FlagIsOfProcess
<1>2. FlagIsOfProcess /\ [Next]_vars => [Nearer]_vars
  BY StopStep
<1>. QED
  BY <1>1, <1>2, FlagStep, PTL DEF Spec
=============================================================================
