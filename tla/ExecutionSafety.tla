---------------------------- MODULE ExecutionSafety ----------------------------
(***************************************************************************)
(* The pure judgement of a two-legged hedge (src/src/execution/safety.ts): *)
(* what the reports on one leg amount to (confirmOrderFill), what the two  *)
(* legs amount to (reconcileExecutionSafety) and the order that repairs    *)
(* them (buildResidualRescueOrder).                                        *)
(*                                                                         *)
(* Abstracted: of an order status only what the rules tell apart is kept:  *)
(* "open" is live, delayed or unmatched; "failed" is failed, or cancelled  *)
(* with nothing filled; any other report is "matched" or "dry_run".  The   *)
(* age of an exposure is whether it is beyond maxUnhedgedMs, the texts of  *)
(* the reasons are left out, and shares are small naturals.                *)
(***************************************************************************)
EXTENDS Naturals

Venue == {"PREDICT", "POLYMARKET"}

OrderStatus == {"matched", "open", "failed", "dry_run"}

NoReport == [status |-> "none", filled |-> 0]

Report(n) == [status : OrderStatus, filled : 0..n]

IsOpen(report) == report.status = "open"

\* Mutant: a leg is open only if every report on it is.
AllOpen(reports) == \A r \in reports : IsOpen(r)

\* One open report is enough to call a leg open.
SomeOpen(reports) == \E r \in reports : IsOpen(r)

\* requireRestAndWs is the default of confirmOrderFill; the coordinator turns it
\* off, and has neither a REST nor a WS report.
ConfirmOrderFill(placement, rest, ws, requested, requireRestAndWs) ==
  LET reports == {placement} \cup ({rest, ws} \ {NoReport})
      authoritative == IF rest # NoReport THEN rest
                       ELSE IF ws # NoReport THEN ws ELSE placement
  IN [filled    |-> authoritative.filled,
      confirmed |-> /\ requireRestAndWs => rest # NoReport /\ ws # NoReport
                    /\ rest # NoReport /\ ws # NoReport => rest.filled = ws.filled,
      failed    |-> \E r \in reports : r.status = "failed",
      open      |-> SomeOpen(reports),
      partial   |-> 0 < authoritative.filled /\ authoritative.filled < requested]

Distance(m, n) == IF m < n THEN n - m ELSE m - n

Outcome(state, residual, venue, actions, pauseReason) ==
  [state |-> state, residual |-> residual, rescueVenue |-> venue,
   actions |-> actions, pauseReason |-> pauseReason]

\* A policy is a record of the three booleans of ExecutionSafetyPolicy; overdue
\* says that the exposure is older than its maxUnhedgedMs.
ReconcileExecutionSafety(predict, polymarket, policy, overdue, rescueAttempt) ==
  LET p == predict.filled
      q == polymarket.filled
      confirmed == predict.confirmed /\ polymarket.confirmed
      residual  == Distance(p, q)
      short     == IF p < q THEN "PREDICT" ELSE "POLYMARKET"
      cancel    == IF /\ policy.cancelUnfilledOrders
                      /\ predict.open \/ polymarket.open \/ predict.partial \/ polymarket.partial
                   THEN {"CANCEL_UNFILLED_ORDERS"} ELSE {}
      waiting   == cancel \cup {"WAIT_FOR_CONFIRMATIONS"}
      pausing   == {"PAUSE_NEW_OPENINGS", "ALERT"}
      rescuing  == cancel \cup {"ALERT"}
                   \cup (IF short = "PREDICT" THEN {"RESCUE_PREDICT_LEG"}
                         ELSE {"RESCUE_POLYMARKET_LEG"})
                   \cup (IF policy.pauseOnUnhedgedResidual THEN {"PAUSE_NEW_OPENINGS"} ELSE {})
  IN CASE policy.postTradeReconcileRequired /\ ~confirmed ->
            IF (p > 0 \/ q > 0) /\ overdue
            THEN Outcome("PAUSED", residual, "none", waiting \cup pausing, "overdue")
            ELSE Outcome("RECONCILING", 0, "none", waiting, "none")
       [] OTHER ->
            CASE p = q /\ p > 0 ->
                   IF confirmed
                   THEN Outcome("HEDGED", 0, "none", cancel \cup {"MARK_HEDGED"}, "none")
                   ELSE Outcome("RECONCILING", 0, "none", cancel, "none")
              [] p = 0 /\ q = 0 ->
                   IF predict.failed /\ polymarket.failed
                   THEN Outcome("FAILED", 0, "none",
                                cancel \cup {"RELEASE_PREDICT_ACCOUNT_LOCK"}, "none")
                   ELSE Outcome("RECONCILING", 0, "none", cancel, "none")
              [] p # q ->
                   IF rescueAttempt = "failed"
                   THEN Outcome("PAUSED", residual, short,
                                rescuing \cup {"PAUSE_NEW_OPENINGS"}, "rescue failed")
                   ELSE IF overdue
                   THEN Outcome("PAUSED", residual, short,
                                rescuing \cup {"PAUSE_NEW_OPENINGS"}, "overdue")
                   ELSE Outcome("RESCUE", residual, short, rescuing, "none")

\* buildResidualRescueOrder makes an order for the residual on the short side.
NeedsRescue(outcome) == outcome.rescueVenue # "none" /\ outcome.residual > 0
=============================================================================
