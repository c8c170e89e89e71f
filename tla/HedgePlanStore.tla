---------------------------- MODULE HedgePlanStore ----------------------------
(***************************************************************************)
(* The files of src/src/storage/hedge-plan-store.ts, as operators: the     *)
(* latest record, which a write truncates before it fills it, and files of *)
(* lines (the history of plans, the operator log), which are appended to.  *)
(*                                                                         *)
(* A record is the number of the pass that generated it: sanitising its    *)
(* plans and summing them up does not depend on anything kept.             *)
(***************************************************************************)
EXTENDS Naturals, Sequences

-----------------------------------------------------------------------------
(* A file of one record *)

Missing == [is |-> "missing", rec |-> 0]     \* reading it fails with ENOENT
Torn == [is |-> "torn", rec |-> 0]           \* empty or cut off: JSON.parse throws
Whole(n) == [is |-> "whole", rec |-> n]

File == {f \in [is : {"missing", "torn", "whole"}, rec : Nat] : f.is # "whole" => f.rec = 0}

\* What the dashboard serves: the first of the files that is there, a torn one as
\* an error (loadHedgePlansForDashboard, readJsonIfExists).  "latest" stands for
\* latest_file and paper_live.
Served(source, file) == [source |-> IF file = Torn THEN "error" ELSE source, rec |-> file.rec]

\* Mutant: a file that does not parse is passed over like one that is missing.
LoadHedgePlansThatParse(snapshot, latest, example) ==
  IF snapshot \notin {Missing, Torn} THEN Served("snapshot_env", snapshot)
  ELSE IF latest \notin {Missing, Torn} THEN Served("latest", latest)
  ELSE IF example \notin {Missing, Torn} THEN Served("example_snapshot", example)
  ELSE [source |-> "empty_fallback", rec |-> 0]

LoadHedgePlans(snapshot, latest, example) ==
  IF snapshot # Missing THEN Served("snapshot_env", snapshot)
  ELSE IF latest # Missing THEN Served("latest", latest)
  ELSE IF example # Missing THEN Served("example_snapshot", example)
  ELSE [source |-> "empty_fallback", rec |-> 0]

Answer == [source : {"snapshot_env", "latest", "example_snapshot", "empty_fallback", "error"},
           rec : Nat]

-----------------------------------------------------------------------------
(* A file of lines *)

Garbled == 0    \* a line no record can be read from

LineFile == [lines : Seq(Nat), open : BOOLEAN]  \* open: the last line lacks its newline

NoLines == [lines |-> <<>>, open |-> FALSE]

\* What is written joins an open line, and such a line is not one JSON value.
Joined(file, n) ==
  IF file.open THEN [file.lines EXCEPT ![Len(file.lines)] = Garbled]
  ELSE Append(file.lines, n)

\* Mutant: the newline is left out.
AppendLineUnended(file, n) == [lines |-> Joined(file, n), open |-> TRUE]

\* writeFile with flag "a" wrote the record and its newline.
AppendLine(file, n) == [lines |-> Joined(file, n), open |-> FALSE]

\* It was cut: by then nothing, a part of the record, or all but the newline is there.
CutAppends(file, n) == {file} \cup {[lines |-> Joined(file, m), open |-> TRUE] : m \in {Garbled, n}}

\* Several lines of one pass, the last of which tells of its record: an open line is
\* joined by the first of them, and any of them may be the last that was written.
LogLines(file, n) ==
  LET begun == IF file.open THEN AppendLine(file, Garbled) ELSE file
  IN {AppendLine(begun, n)} \cup CutAppends(begun, n) \cup CutAppends(file, Garbled)

\* The records readHedgeDryRunHistory finds: parseHistoryLine drops garbled lines.
Recorded(file) == {file.lines[i] : i \in DOMAIN file.lines} \ {Garbled}
=============================================================================
