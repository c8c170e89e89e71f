------------------------------ MODULE OrderReports ------------------------------
(***************************************************************************)
(* What the reports on the two orders of a hedge amount to, when they      *)
(* arrive in any order: reconcileConfirmedOrderReports                     *)
(* (src/src/execution/flow.ts), which judges a hedge by the placement, the *)
(* REST and the WS report of each leg, and reconcileOrderReports, which    *)
(* the reconcile job applies to one report of each leg.                    *)
(*                                                                         *)
(* An order lives on its venue and moves on while it is open.  A report    *)
(* shows it as it is or, when it was delayed, repeated or overtaken, as it *)
(* once was; it may be missing.  Nothing in src/ calls the judgement yet,  *)
(* so whoever holds reports may judge at any time and as often as he       *)
(* likes, and passes whatever he knows of a rescue.                        *)
(***************************************************************************)
EXTENDS ExecutionSafety

CONSTANTS
  Shares,      \* requestedShares
  Policy,      \* ExecutionSafetyPolicy, as in ExecutionSafety
  LateReports  \* reports may be missing or late

ASSUME ReportsAssumption ==
  /\ Shares \in Nat \ {0}
  /\ Policy \in [cancelUnfilledOrders : BOOLEAN, postTradeReconcileRequired : BOOLEAN,
                 pauseOnUnhedgedResidual : BOOLEAN]
  /\ LateReports \in BOOLEAN

VARIABLES
  order,    \* venue: the order of each leg
  seen,     \* venue: what each order has been, which a report may still show
  placed,   \* what the venue answered to placeOrder
  overdue,  \* the exposure is older than maxUnhedgedMs
  last      \* the last judgement: the confirmed legs, and the outcome

vars == <<order, seen, placed, overdue, last>>

\* Orders are FOK, FAK or bounded LIMIT, so a part may be filled and the rest open
\* or cancelled; an order that failed has filled nothing.
Order == {o \in [status : {"open", "matched", "cancelled", "failed"}, filled : 0..Shares] :
            /\ o.status \in {"open", "cancelled"} => o.filled < Shares
            /\ o.status = "matched" => o.filled > 0
            /\ o.status = "failed" => o.filled = 0}

New == [status |-> "open", filled |-> 0]

\* Mutant: what a cancelled order had filled before is overlooked.
AsReportOfFailure(o) ==
  [status |-> IF o.status = "cancelled" THEN "failed" ELSE o.status, filled |-> o.filled]

\* isTerminalFailure: a cancelled order has failed only if it filled nothing.
AsReport(o) ==
  [status |-> CASE o.status = "cancelled" /\ o.filled = 0 -> "failed"
                [] o.status = "cancelled" /\ o.filled > 0 -> "matched"
                [] OTHER -> o.status,
   filled |-> o.filled]

Confirmation == [filled : 0..Shares, confirmed : BOOLEAN, failed : BOOLEAN,
                 open : BOOLEAN, partial : BOOLEAN]

Actions == {"MARK_HEDGED", "WAIT_FOR_CONFIRMATIONS", "CANCEL_UNFILLED_ORDERS",
            "RESCUE_PREDICT_LEG", "RESCUE_POLYMARKET_LEG",
            "RELEASE_PREDICT_ACCOUNT_LOCK", "PAUSE_NEW_OPENINGS", "ALERT"}

Outcomes == [state       : {"RECONCILING", "HEDGED", "FAILED", "RESCUE", "PAUSED"},
             residual    : 0..Shares,
             rescueVenue : Venue \cup {"none"},
             actions     : SUBSET Actions,
             pauseReason : {"none", "overdue", "rescue failed"}]

Judgement == [leg : [Venue -> Confirmation], outcome : Outcomes]

\* Before the first judgement.
Unjudged ==
  [leg     |-> [v \in Venue |-> [filled |-> 0, confirmed |-> FALSE, failed |-> FALSE,
                                 open |-> TRUE, partial |-> FALSE]],
   outcome |-> Outcome("RECONCILING", 0, "none", {}, "none")]

Init ==
  /\ order = [v \in Venue |-> New]
  /\ seen = [v \in Venue |-> {New}]
  /\ placed = [v \in Venue |-> NoReport]
  /\ overdue = FALSE
  /\ last = Unjudged

-----------------------------------------------------------------------------
(* The venues and the clock *)

\* The order fills some more, is filled or cancelled, or fails.
OrderMoves(v) ==
  /\ order[v].status = "open"
  /\ \E o \in Order :
       /\ o # order[v] /\ o.filled >= order[v].filled
       /\ order' = [order EXCEPT ![v] = o]
       /\ seen' = [seen EXCEPT ![v] = @ \cup {o}]
  /\ UNCHANGED <<placed, overdue, last>>

\* The answer to placeOrder: how the order stood when the venue answered.
PlacementAnswered(v) ==
  /\ placed[v] = NoReport
  /\ placed' = [placed EXCEPT ![v] = AsReport(order[v])]
  /\ UNCHANGED <<order, seen, overdue, last>>

\* maxUnhedgedMs passes after the first fill.
TimePasses ==
  /\ \E v \in Venue : order[v].filled > 0
  /\ overdue' = TRUE
  /\ UNCHANGED <<order, seen, placed, last>>

-----------------------------------------------------------------------------
(* The judgement *)

ReportsOn(v) ==
  IF LateReports THEN {AsReport(o) : o \in seen[v]} \cup {NoReport} ELSE {AsReport(order[v])}

\* What confirmOrderFill may make of a leg; requireRestAndWs is its default.
Confirmations(v) ==
  UNION {{ConfirmOrderFill(placed[v], rest, ws, Shares, TRUE) : rest \in ReportsOn(v)}
         : ws \in ReportsOn(v)}

\* reconcileConfirmedOrderReports.
Judge ==
  /\ \A v \in Venue : placed[v] # NoReport
  /\ \E p \in Confirmations("PREDICT"), q \in Confirmations("POLYMARKET"),
        attempt \in {"none", "succeeded", "failed"} :
       last' = [leg     |-> [v \in Venue |-> IF v = "PREDICT" THEN p ELSE q],
                outcome |-> ReconcileExecutionSafety(p, q, Policy, overdue, attempt)]
  /\ UNCHANGED <<order, seen, placed, overdue>>

Next == \/ \E v \in Venue : OrderMoves(v) \/ PlacementAnswered(v)
        \/ TimePasses \/ Judge

Spec == Init /\ [][Next]_vars

-----------------------------------------------------------------------------
(* The reconcile job's reading of one report of each leg *)

\* Mutant: equal shares are not asked for.
ReconcileHedgeStateUnequal(p, q) ==
  IF p.status = "failed" /\ q.status = "failed" THEN "FAILED"
  ELSE IF p.filled > 0 /\ q.filled > 0 THEN "HEDGED"
  ELSE IF p.filled > 0 \/ q.filled > 0 THEN "UNHEDGED"
  ELSE IF "failed" \in {p.status, q.status} THEN "RESCUE"
  ELSE "RECONCILING"

\* reconcileHedgeState; here only the status failed is a failure.
ReconcileHedgeState(p, q) ==
  IF p.status = "failed" /\ q.status = "failed" THEN "FAILED"
  ELSE IF p.filled = q.filled /\ p.filled > 0 THEN "HEDGED"
  ELSE IF p.filled > 0 \/ q.filled > 0 THEN "UNHEDGED"
  ELSE IF "failed" \in {p.status, q.status} THEN "RESCUE"
  ELSE "RECONCILING"

\* allowedHedgeTransitions, for the states a judgement gives.
AllowedHedgeTransitions ==
  [RECONCILING |-> {"HEDGED", "RESCUE", "UNHEDGED", "PAUSED", "FAILED"},
   HEDGED      |-> {"SETTLING", "PAUSED"},
   RESCUE      |-> {"HEDGED", "UNHEDGED", "PAUSED", "FAILED"},
   PAUSED      |-> {"RESCUE", "FAILED"},
   FAILED      |-> {}]

-----------------------------------------------------------------------------
TypeOK ==
  /\ order \in [Venue -> Order]
  /\ seen \in [Venue -> SUBSET Order]
  /\ placed \in [Venue -> Report(Shares) \cup {NoReport}]
  /\ overdue \in BOOLEAN
  /\ last \in Judgement

Over(v) == order[v].status # "open"

Other(v) == CHOOSE w \in Venue : w # v

\* A report that is final shows what the order is for good.
ReportsAreHistory ==
  \A v \in Venue :
    /\ order[v] \in seen[v]
    /\ \A o \in seen[v] : o.status # "open" => o = order[v]
    /\ placed[v] # NoReport => \E o \in seen[v] : placed[v] = AsReport(o)

\* One final report among those on a leg is enough to know the leg if none is
\* open, and to know that it failed.
LegsAreKnown ==
  \A v \in Venue :
    LET c == last.leg[v]
    IN /\ ~c.open => Over(v) /\ c.filled = order[v].filled
       /\ c.failed => Over(v) /\ order[v].filled = 0

\* What an outcome says of the two confirmations it was made from.
Follows(outcome, p, q) ==
  /\ outcome.state = "FAILED" => p.failed /\ q.failed
  /\ outcome.state = "HEDGED" => p.filled = q.filled /\ p.filled > 0
  /\ outcome.state \in {"RESCUE", "PAUSED"} => outcome.residual = Distance(p.filled, q.filled)
  /\ outcome.rescueVenue = "PREDICT" => p.filled < q.filled
  /\ outcome.rescueVenue = "POLYMARKET" => q.filled < p.filled
  /\ outcome.rescueVenue # "none" => outcome.state \in {"RESCUE", "PAUSED"}
  /\ p.confirmed /\ q.confirmed
     => (outcome.state = "HEDGED" <=> p.filled = q.filled /\ p.filled > 0)
  /\ p.confirmed /\ q.confirmed
     => (outcome.state \in {"RESCUE", "PAUSED"} <=> p.filled # q.filled)

OutcomeOfLegs == Follows(last.outcome, last.leg["PREDICT"], last.leg["POLYMARKET"])

\* The inductive invariant.
SoundJudgement == TypeOK /\ ReportsAreHistory /\ LegsAreKnown /\ OutcomeOfLegs

\* None of the reports the last judgement used was open.
NothingOpen == \A v \in Venue : ~last.leg[v].open

\* However late, repeated or out of order the reports: a hedge judged FAILED, whose
\* account lock is released, has bought nothing and never will; and when no report
\* is open, HEDGED means equal shares on the venues, and a rescue order for the
\* residual on the named venue makes them equal.
JudgementHolds ==
  LET outcome == last.outcome
  IN /\ outcome.state = "FAILED" => \A v \in Venue : Over(v) /\ order[v].filled = 0
     /\ NothingOpen /\ outcome.state = "HEDGED"
        => order["PREDICT"].filled = order["POLYMARKET"].filled
     /\ NothingOpen /\ outcome.rescueVenue # "none"
        => order[outcome.rescueVenue].filled + outcome.residual
             = order[Other(outcome.rescueVenue)].filled

\* Once the last judgement has nothing open and is not waiting for a confirmation,
\* the reconcile job's reading of the venues agrees with it: the same hedges are
\* hedged, and it is UNHEDGED that is to be rescued or has paused.
OpinionsAgree ==
  LET opinion == ReconcileHedgeState(order["PREDICT"], order["POLYMARKET"])
      waiting == \E v \in Venue : ~last.leg[v].confirmed
  IN NothingOpen /\ ~waiting =>
       /\ opinion = "HEDGED" <=> last.outcome.state = "HEDGED"
       /\ opinion = "UNHEDGED" <=> last.outcome.state \in {"RESCUE", "PAUSED"}

\* A hedge that was judged HEDGED is left only as allowedHedgeTransitions
\* (core/state-machine.ts:53) allows.
HedgedStays ==
  [][last.outcome.state = "HEDGED"
     => last'.outcome.state \in {"HEDGED"} \cup AllowedHedgeTransitions["HEDGED"]]_vars
=============================================================================
