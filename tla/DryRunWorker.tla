----------------------------- MODULE DryRunWorker -----------------------------
(***************************************************************************)
(* runDryRunHedgeWorker (src/src/workers/dry-run-hedge-worker.ts): each    *)
(* pass builds a record, replaces the latest file, appends to the history  *)
(* and to the operator log, and waits.  It is killed, restarted and told   *)
(* to stop at any time, and a write may fail; the dashboard's server, a    *)
(* process of its own, reads the latest file meanwhile.                    *)
(*                                                                         *)
(* Abstracted: the plans of a record; the fetch they are built from, every *)
(* failure of which becomes a rejected plan; of the lines of one pass in   *)
(* the operator log the last, history_file_appended.  The launcher runs    *)
(* one worker at a time (src/scripts/start-dashboard-full.ps1:263).        *)
(***************************************************************************)
EXTENDS HedgePlanStore, FiniteSets

CONSTANTS Signal,     \* signals the worker handles
          Snapshot,   \* the file HEDGE_DASHBOARD_SNAPSHOT names
          Example,    \* the example snapshot
          PaperLive,  \* --paper-live-market-data
          MaxPasses,  \* bound: passes begun
          MaxCuts     \* bound: passes cut short

ASSUME WorkerAssumption == /\ Snapshot \in File
                           /\ Example \in File
                           /\ PaperLive \in BOOLEAN
                           /\ MaxPasses \in Nat
                           /\ MaxCuts \in Nat

VARIABLES pc,         \* where the worker is
          once,       \* it was started with --once
          armed,      \* signals whose handler is still installed
          stopped,    \* the flag they set
          pass,       \* the last pass begun; its number is its record's
          latest,     \* data/hedge-plans.latest.json
          history,    \* data/hedge-plans.history.jsonl
          opLog,      \* logs/operator-events.jsonl
          published,  \* the records that were written to latest whole
          cut,        \* passes that ended before their record was in both files
          shown       \* the last answer of the dashboard that was not an error

vars == <<pc, once, armed, stopped, pass, latest, history, opLog, published, cut, shown>>
process == <<once, armed, stopped>>

Running == {"fetch", "open", "write", "append", "events", "delay"}

TypeOK == /\ pc \in Running \cup {"down"}
          /\ once \in BOOLEAN
          /\ armed \subseteq Signal
          /\ stopped \in BOOLEAN
          /\ pass \in Nat
          /\ latest \in File
          /\ history \in LineFile
          /\ opLog \in LineFile
          /\ published \subseteq Nat
          /\ cut \subseteq Nat
          /\ shown \in Answer

Init == /\ pc = "down"
        /\ once = FALSE
        /\ armed = {}
        /\ stopped = FALSE
        /\ pass = 0
        /\ latest = Missing
        /\ history = NoLines
        /\ opLog = NoLines
        /\ published = {}
        /\ cut = {}
        /\ shown = [source |-> "empty_fallback", rec |-> 0]

-----------------------------------------------------------------------------
(* The worker *)

BeginPass == /\ pass < MaxPasses
             /\ pass' = pass + 1
             /\ pc' = "fetch"

\* The process is gone, and with it its handlers and its flag.
End == /\ pc' = "down"
       /\ once' = FALSE
       /\ armed' = {}
       /\ stopped' = FALSE

Cut == /\ Cardinality(cut) < MaxCuts
       /\ cut' = cut \cup {pass}
       /\ End

Start == /\ pc = "down"
         /\ once' \in BOOLEAN
         /\ armed' = Signal
         /\ stopped' = FALSE
         /\ BeginPass
         /\ UNCHANGED <<latest, history, opLog, published, cut, shown>>

\* Mutant: the history gets the payload before the latest file does.
BuildPayloadAndRecord ==
  /\ pc = "fetch"
  /\ history' = AppendLine(history, pass)
  /\ pc' = "open"
  /\ UNCHANGED <<process, pass, latest, opLog, published, cut, shown>>

\* The book answers, or the fetch fails: either way there is a payload.
BuildPayload == /\ pc = "fetch"
                /\ pc' = "open"
                /\ UNCHANGED <<process, pass, latest, history, opLog, published, cut, shown>>

\* Mutant: the latest file is removed and written anew.
OpenLatestRemoving == /\ pc = "open"
                      /\ latest' = Missing
                      /\ pc' = "write"
                      /\ UNCHANGED <<process, pass, history, opLog, published, cut, shown>>

\* writeFile opens the latest file with O_TRUNC before it writes to it.
OpenLatest == /\ pc = "open"
              /\ latest' = Torn
              /\ pc' = "write"
              /\ UNCHANGED <<process, pass, history, opLog, published, cut, shown>>

WriteLatest == /\ pc = "write"
               /\ latest' = Whole(pass)
               /\ published' = published \cup {pass}
               /\ pc' = "append"
               /\ UNCHANGED <<process, pass, history, opLog, cut, shown>>

\* Mutant: what goes wrong in the append is caught, as it is with the operator log.
AppendHistoryIfItCan ==
  /\ pc = "append"
  /\ history' \in {AppendLine(history, pass), history}
  /\ pc' = "events"
  /\ UNCHANGED <<process, pass, latest, opLog, published, cut, shown>>

AppendHistory == /\ pc = "append"
                 /\ history' = AppendLine(history, pass)
                 /\ pc' = "events"
                 /\ UNCHANGED <<process, pass, latest, opLog, published, cut, shown>>

\* Mutant: the events are written whatever became of the pass.
PassIsCutAndLogged ==
  /\ pc \in {"fetch", "open", "write", "append"}
  /\ opLog' = AppendLine(opLog, pass)
  /\ Cut
  /\ UNCHANGED <<pass, latest, history, published, shown>>

\* A step of a pass throws, which ends the loop, or the process is killed in it.
\* A file that was being written stays as far as it came; the latest file is whole
\* if only its newline is missing.
PassIsCut ==
  /\ \/ pc \in {"fetch", "open", "write"} /\ UNCHANGED <<latest, history, published>>
     \/ /\ pc = "write"
        /\ latest' = Whole(pass)
        /\ published' = published \cup {pass}
        /\ UNCHANGED history
     \/ /\ pc = "append"
        /\ history' \in CutAppends(history, pass)
        /\ UNCHANGED <<latest, published>>
  /\ Cut
  /\ UNCHANGED <<pass, opLog, shown>>

LogEvents == \/ ~PaperLive /\ UNCHANGED opLog
             \/ PaperLive /\ opLog' \in LogLines(opLog, pass)

\* writeWorkerOperatorEvents: what goes wrong in it is caught.
WriteEvents == /\ pc = "events"
               /\ LogEvents
               /\ \/ ~once /\ pc' = "delay" /\ UNCHANGED process
                  \/ once /\ End
               /\ UNCHANGED <<pass, latest, history, published, cut, shown>>

\* Mutant: the loop goes on for ever.
WakeAgain == /\ pc = "delay"
             /\ BeginPass
             /\ UNCHANGED <<process, latest, history, opLog, published, cut, shown>>

\* The delay is over; the flag is read only now.
Wake == /\ pc = "delay"
        /\ \/ stopped /\ End /\ UNCHANGED pass
           \/ ~stopped /\ BeginPass /\ UNCHANGED process
        /\ UNCHANGED <<latest, history, opLog, published, cut, shown>>

\* process.once: the first signal of a kind sets the flag.
Stop(s) == /\ pc # "down"
           /\ s \in armed
           /\ armed' = armed \ {s}
           /\ stopped' = TRUE
           /\ UNCHANGED <<pc, once, pass, latest, history, opLog, published, cut, shown>>

\* A second one, and whatever else kills the process between two passes' writes.
Killed == /\ \/ pc = "events" /\ LogEvents
             \/ pc = "delay" /\ UNCHANGED opLog
          /\ End
          /\ UNCHANGED <<pass, latest, history, published, cut, shown>>

-----------------------------------------------------------------------------
(* The dashboard *)

\* GET /api/hedge-plans; an error is answered with status 500 and shows nothing.
Show == /\ LET answer == LoadHedgePlans(Snapshot, latest, Example)
           IN /\ answer.source # "error"
              /\ shown' = answer
        /\ UNCHANGED <<pc, process, pass, latest, history, opLog, published, cut>>

Work == \/ BuildPayload \/ OpenLatest \/ WriteLatest \/ AppendHistory
        \/ WriteEvents \/ Wake

Next == \/ Start
        \/ Work
        \/ PassIsCut
        \/ Killed
        \/ \E s \in Signal : Stop(s)
        \/ Show

Spec == Init /\ [][Next]_vars

\* Each await of a pass settles: a fetch answers or times out in the client, a
\* write completes or fails, a timer fires.
FairSpec == Spec /\ WF_vars(Work)

-----------------------------------------------------------------------------
(* Properties *)

\* The latest file is the newest record that was ever whole in it, whatever passes
\* were cut since; it is missing only while nothing was written.  It is torn only
\* between the two steps of a write, or after a pass that was cut there and before
\* the next record: hedge-plan-store.ts:66 truncates in place.
LatestIsNewest ==
  /\ latest.is = "whole" => /\ latest.rec \in published
                            /\ \A n \in published : n <= latest.rec
  /\ latest = Missing => published = {}
  /\ latest = Torn => \/ pc = "write"
                      \/ \E m \in cut : \A n \in published : n < m

\* The history holds published records only, each once and in the order they were
\* generated (buildExposureTimeline relies on it): a record is appended after it
\* was published, by the pass that published it.
HistoryIsOfPublished ==
  /\ Recorded(history) \subseteq published
  /\ \A i, j \in DOMAIN history.lines :
       i < j /\ history.lines[j] # Garbled => history.lines[i] < history.lines[j]

\* A published record is not in the history only if its own pass was cut, or if it
\* is the first one published after a pass that was: its line may have been joined
\* to what that pass left.  So a cut costs two records at most.
CutCostsTwo ==
  \A n \in published \ Recorded(history) :
    \/ n \in cut
    \/ n = pass /\ pc = "append"
    \/ \E m \in cut \cap published : m < n /\ \A k \in published : k <= m \/ k >= n

\* The operator log tells of no write that did not happen: a pass it names was
\* published and recorded, though a later cut may have garbled its line.
LogTellsTrue == Recorded(opLog) \subseteq published \ cut

\* A record that is in the history leaves it only if the line that is last lacks
\* its newline, and then its pass was cut.
RecordedStays == [][\A n \in Recorded(history) \ Recorded(history)' : n \in cut]_vars

\* The dashboard never goes back: after a record of the worker it shows no older
\* one and no example, whatever is torn, cut or restarted in between
\* (readJsonIfExists passes over a file only when it does not exist).
NeverShowsOlder ==
  [][shown.source = "latest" => /\ shown'.source = "latest"
                                /\ shown'.rec >= shown.rec]_vars

\* A worker that was told to stop ends.
StopEnds == stopped ~> (pc = "down")
=============================================================================
