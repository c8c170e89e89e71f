--------------------------- MODULE OrderReportsProofs ---------------------------
(* Proofs about OrderReports, for any number of shares, any policy and       *)
(* reports in any order.                                                     *)
EXTENDS OrderReports, TLAPS

-----------------------------------------------------------------------------
(* What one report says                                                      *)

(* A report keeps the shares, and is a failure exactly when the order is over *)
(* with nothing filled (isTerminalFailure, safety.ts:231).                   *)
LEMMA ReportOfOrder ==
  ASSUME NEW o \in Order
  PROVE  /\ AsReport(o) \in Report(Shares)
         /\ AsReport(o).filled = o.filled
         /\ IsOpen(AsReport(o)) <=> o.status = "open"
         /\ AsReport(o).status = "failed" => o.status # "open" /\ o.filled = 0
<1>1. /\ o.status \in {"open", "matched", "cancelled", "failed"} /\ o.filled \in 0..Shares
      /\ o.status = "failed" => o.filled = 0
  BY DEF Order
<1>2. AsReport(o).filled = o.filled BY DEF AsReport
<1>3. o.filled = 0 \/ o.filled > 0 BY <1>1, ReportsAssumption
<1>4. CASE o.status = "cancelled"
  <2>1. AsReport(o).status = IF o.filled = 0 THEN "failed" ELSE "matched"
    BY <1>1, <1>3, <1>4, ReportsAssumption DEF AsReport
  <2> QED BY <1>1, <1>2, <1>4, <2>1 DEF AsReport, Report, OrderStatus, IsOpen
<1>5. CASE o.status # "cancelled"
  <2>1. AsReport(o).status = o.status BY <1>5 DEF AsReport
  <2> QED BY <1>1, <1>2, <1>5, <2>1 DEF AsReport, Report, OrderStatus, IsOpen
<1> QED BY <1>4, <1>5

Known(v, r) == \E o \in seen[v] : r = AsReport(o)

(* A report that is not open, or is a failure, shows what the order is now.  *)
LEMMA FinalReport ==
  ASSUME TypeOK, ReportsAreHistory, NEW v \in Venue, NEW r, Known(v, r)
  PROVE  /\ r \in Report(Shares)
         /\ ~IsOpen(r) => Over(v) /\ r.filled = order[v].filled
         /\ r.status = "failed" => Over(v) /\ order[v].filled = 0
<1>1. PICK o \in seen[v] : r = AsReport(o) BY DEF Known
<1>2. o \in Order BY DEF TypeOK
<1>3. o.status # "open" => o = order[v] BY DEF ReportsAreHistory
<1> QED BY <1>1, <1>2, <1>3, ReportOfOrder DEF Over

(* confirmOrderFill (safety.ts:97): a leg of which no report is open, or one  *)
(* of which is a failure, is known.                                          *)
LEMMA ConfirmedLeg ==
  ASSUME TypeOK, ReportsAreHistory, NEW v \in Venue, placed[v] # NoReport,
         NEW c \in Confirmations(v)
  PROVE  /\ c \in Confirmation
         /\ ~c.open => Over(v) /\ c.filled = order[v].filled
         /\ c.failed => Over(v) /\ order[v].filled = 0
<1>1. PICK rest \in ReportsOn(v), ws \in ReportsOn(v) :
         c = ConfirmOrderFill(placed[v], rest, ws, Shares, TRUE)
  BY DEF Confirmations
<1>2. Known(v, placed[v]) BY DEF ReportsAreHistory, Known
<1>3. \A r \in ReportsOn(v) : r # NoReport => Known(v, r)
  BY DEF ReportsOn, Known, ReportsAreHistory
<1> DEFINE reports == {placed[v]} \cup ({rest, ws} \ {NoReport})
           authoritative == IF rest # NoReport THEN rest
                            ELSE IF ws # NoReport THEN ws ELSE placed[v]
<1>4. \A r \in reports : Known(v, r) BY <1>2, <1>3
<1>5. authoritative \in reports OBVIOUS
<1>6. /\ c.filled = authoritative.filled
      /\ c.failed = (\E r \in reports : r.status = "failed")
      /\ c.open = (\E r \in reports : IsOpen(r))
  BY <1>1 DEF ConfirmOrderFill, SomeOpen
<1>7. c \in Confirmation
  <2>1. authoritative.filled \in 0..Shares BY <1>4, <1>5, FinalReport DEF Report
  <2>2. /\ DOMAIN c = {"filled", "confirmed", "failed", "open", "partial"}
        /\ c.confirmed \in BOOLEAN /\ c.failed \in BOOLEAN
        /\ c.open \in BOOLEAN /\ c.partial \in BOOLEAN
    BY <1>1 DEF ConfirmOrderFill, SomeOpen
  <2>3. c = [filled |-> c.filled, confirmed |-> c.confirmed, failed |-> c.failed,
             open |-> c.open, partial |-> c.partial]
    BY <1>1 DEF ConfirmOrderFill
  <2> QED BY <1>6, <2>1, <2>2, <2>3 DEF Confirmation
<1>8. ~c.open => Over(v) /\ c.filled = order[v].filled
  BY <1>4, <1>5, <1>6, FinalReport
<1>9. c.failed => Over(v) /\ order[v].filled = 0
  BY <1>4, <1>6, FinalReport
<1> QED BY <1>7, <1>8, <1>9

-----------------------------------------------------------------------------
(* The judgement of two legs                                                 *)

Attempts == {"none", "succeeded", "failed"}

Verdict(p, q, attempt) == ReconcileExecutionSafety(p, q, Policy, overdue, attempt)

(* reconcileExecutionSafety (safety.ts:133), by its returns: waiting, equal   *)
(* shares, nothing filled, and unequal shares.                               *)
LEMMA VerdictOfLegs ==
  ASSUME NEW p \in Confirmation, NEW q \in Confirmation, NEW attempt \in Attempts
  PROVE  Verdict(p, q, attempt) \in Outcomes /\ Follows(Verdict(p, q, attempt), p, q)
<1> DEFINE w == Verdict(p, q, attempt)
           residual == Distance(p.filled, q.filled)
           confirmed == p.confirmed /\ q.confirmed
<1>1. /\ p.filled \in 0..Shares /\ q.filled \in 0..Shares /\ residual \in 0..Shares
      /\ p.filled = q.filled <=> residual = 0
  BY ReportsAssumption DEF Confirmation, Distance
<1>2. CASE Policy.postTradeReconcileRequired /\ ~confirmed
  <2>1. \/ w.state = "PAUSED" /\ w.residual = residual
        \/ w.state = "RECONCILING" /\ w.residual = 0
    BY <1>2 DEF Verdict, ReconcileExecutionSafety, Outcome
  <2>2. w.rescueVenue = "none"
    BY <1>2 DEF Verdict, ReconcileExecutionSafety, Outcome
  <2>3. w \in Outcomes
    <3>1. CASE (p.filled > 0 \/ q.filled > 0) /\ overdue
      BY <1>1, <1>2, <3>1 DEF Verdict, ReconcileExecutionSafety, Outcome, Outcomes, Actions
    <3>2. CASE ~((p.filled > 0 \/ q.filled > 0) /\ overdue)
      BY <1>1, <1>2, <3>2, ReportsAssumption
      DEF Verdict, ReconcileExecutionSafety, Outcome, Outcomes, Actions
    <3> QED BY <3>1, <3>2
  <2> QED BY <1>2, <2>1, <2>2, <2>3 DEF Follows
<1>3. CASE /\ ~(Policy.postTradeReconcileRequired /\ ~confirmed)
           /\ p.filled = q.filled /\ p.filled > 0
  <2>1. /\ w.state = IF confirmed THEN "HEDGED" ELSE "RECONCILING"
        /\ w.rescueVenue = "none"
    BY <1>1, <1>3 DEF Verdict, ReconcileExecutionSafety, Outcome
  <2>2. w \in Outcomes
    BY <1>1, <1>3 DEF Verdict, ReconcileExecutionSafety, Outcome, Outcomes, Actions
  <2> QED BY <1>1, <1>3, <2>1, <2>2 DEF Follows
<1>4. CASE /\ ~(Policy.postTradeReconcileRequired /\ ~confirmed)
           /\ p.filled = 0 /\ q.filled = 0
  <2>1. /\ w.state = IF p.failed /\ q.failed THEN "FAILED" ELSE "RECONCILING"
        /\ w.rescueVenue = "none"
    BY <1>1, <1>4 DEF Verdict, ReconcileExecutionSafety, Outcome
  <2>2. w \in Outcomes
    BY <1>1, <1>4 DEF Verdict, ReconcileExecutionSafety, Outcome, Outcomes, Actions
  <2> QED BY <1>1, <1>4, <2>1, <2>2 DEF Follows
<1>5. CASE /\ ~(Policy.postTradeReconcileRequired /\ ~confirmed)
           /\ p.filled # q.filled
  <2>1. /\ w.state \in {"RESCUE", "PAUSED"} /\ w.residual = residual
        /\ w.rescueVenue = IF p.filled < q.filled THEN "PREDICT" ELSE "POLYMARKET"
    BY <1>1, <1>5 DEF Verdict, ReconcileExecutionSafety, Outcome
  <2>2. w \in Outcomes
    BY <1>1, <1>5
    DEF Verdict, ReconcileExecutionSafety, Outcome, Outcomes, Actions, Venue
  <2> QED BY <1>1, <1>5, <2>1, <2>2 DEF Follows
<1>6. p.filled > 0 \/ p.filled = 0 BY <1>1, ReportsAssumption
<1> QED BY <1>2, <1>3, <1>4, <1>5, <1>6

-----------------------------------------------------------------------------
(* The inductive invariant                                                   *)

LEMMA InitSound == Init => SoundJudgement
<1> SUFFICES ASSUME Init PROVE SoundJudgement OBVIOUS
<1>1. New \in Order BY ReportsAssumption DEF New, Order
<1>2. last \in Judgement
  <2>1. Unjudged.outcome \in Outcomes BY ReportsAssumption DEF Unjudged, Outcome, Outcomes
  <2>2. Unjudged.leg \in [Venue -> Confirmation]
    BY ReportsAssumption DEF Unjudged, Confirmation
  <2>3. Unjudged = [leg |-> Unjudged.leg, outcome |-> Unjudged.outcome] BY DEF Unjudged
  <2> QED BY <2>1, <2>2, <2>3 DEF Init, Judgement
<1>3. TypeOK BY <1>1, <1>2 DEF Init, TypeOK
<1>4. ReportsAreHistory BY DEF Init, ReportsAreHistory
<1>5. LegsAreKnown BY DEF Init, LegsAreKnown, Unjudged
<1>6. OutcomeOfLegs
  BY DEF Init, OutcomeOfLegs, Follows, Unjudged, Outcome, Venue
<1> QED BY <1>3, <1>4, <1>5, <1>6 DEF SoundJudgement

LEMMA OrderMovesKeeps ==
  ASSUME SoundJudgement, NEW v \in Venue, OrderMoves(v)
  PROVE  SoundJudgement'
<1>1. PICK o \in Order : /\ order[v].status = "open"
                         /\ order' = [order EXCEPT ![v] = o]
                         /\ seen' = [seen EXCEPT ![v] = @ \cup {o}]
                         /\ UNCHANGED <<placed, overdue, last>>
  BY DEF OrderMoves
<1>2. TypeOK' BY <1>1 DEF SoundJudgement, TypeOK
<1>3. ReportsAreHistory'
  <2> SUFFICES ASSUME NEW w \in Venue
               PROVE  /\ order'[w] \in seen'[w]
                      /\ \A s \in seen'[w] : s.status # "open" => s = order'[w]
                      /\ placed'[w] # NoReport => \E s \in seen'[w] : placed'[w] = AsReport(s)
    BY DEF ReportsAreHistory
  <2>1. /\ order[w] \in seen[w]
        /\ \A s \in seen[w] : s.status # "open" => s = order[w]
        /\ placed[w] # NoReport => \E s \in seen[w] : placed[w] = AsReport(s)
    BY DEF SoundJudgement, ReportsAreHistory
  <2>2. CASE w = v
    <3>1. order'[w] = o /\ seen'[w] = seen[w] \cup {o} BY <1>1, <2>2 DEF SoundJudgement, TypeOK
    <3> QED BY <1>1, <2>1, <2>2, <3>1
  <2>3. CASE w # v
    <3>1. order'[w] = order[w] /\ seen'[w] = seen[w] BY <1>1, <2>3 DEF SoundJudgement, TypeOK
    <3> QED BY <1>1, <2>1, <3>1
  <2> QED BY <2>2, <2>3
<1>4. LegsAreKnown'
  <2>1. last.leg[v].open /\ ~last.leg[v].failed
    BY <1>1 DEF SoundJudgement, LegsAreKnown, Over
  <2>2. \A w \in Venue : w # v => order'[w] = order[w] BY <1>1 DEF SoundJudgement, TypeOK
  <2> QED BY <1>1, <2>1, <2>2 DEF SoundJudgement, LegsAreKnown, Over
<1>5. OutcomeOfLegs' BY <1>1 DEF SoundJudgement, OutcomeOfLegs
<1> QED BY <1>2, <1>3, <1>4, <1>5 DEF SoundJudgement

LEMMA PlacementAnsweredKeeps ==
  ASSUME SoundJudgement, NEW v \in Venue, PlacementAnswered(v)
  PROVE  SoundJudgement'
<1>1. /\ placed' = [placed EXCEPT ![v] = AsReport(order[v])]
      /\ UNCHANGED <<order, seen, overdue, last>>
  BY DEF PlacementAnswered
<1>2. order[v] \in Order /\ order[v] \in seen[v]
  BY DEF SoundJudgement, TypeOK, ReportsAreHistory
<1>3. TypeOK' BY <1>1, <1>2, ReportOfOrder DEF SoundJudgement, TypeOK
<1>4. \A w \in Venue : placed'[w] = IF w = v THEN AsReport(order[v]) ELSE placed[w]
  BY <1>1 DEF SoundJudgement, TypeOK
<1>5. ReportsAreHistory' BY <1>1, <1>2, <1>4 DEF SoundJudgement, ReportsAreHistory
<1>6. LegsAreKnown' /\ OutcomeOfLegs'
  BY <1>1 DEF SoundJudgement, LegsAreKnown, Over, OutcomeOfLegs
<1> QED BY <1>3, <1>5, <1>6 DEF SoundJudgement

LEMMA TimePassesKeeps ==
  ASSUME SoundJudgement, TimePasses PROVE SoundJudgement'
BY DEF SoundJudgement, TimePasses, TypeOK, ReportsAreHistory, LegsAreKnown, Over, OutcomeOfLegs

LEMMA JudgeKeeps ==
  ASSUME SoundJudgement, Judge PROVE SoundJudgement'
<1>1. UNCHANGED <<order, seen, placed, overdue>> /\ \A v \in Venue : placed[v] # NoReport
  BY DEF Judge
<1>2. PICK p \in Confirmations("PREDICT"), q \in Confirmations("POLYMARKET"),
           attempt \in Attempts :
         last' = [leg     |-> [v \in Venue |-> IF v = "PREDICT" THEN p ELSE q],
                  outcome |-> Verdict(p, q, attempt)]
  BY DEF Judge, Attempts, Verdict
<1>3. "PREDICT" \in Venue /\ "POLYMARKET" \in Venue BY DEF Venue
<1>4. p \in Confirmation /\ q \in Confirmation
  BY <1>1, <1>3, ConfirmedLeg DEF SoundJudgement
<1>5. /\ ~p.open => Over("PREDICT") /\ p.filled = order["PREDICT"].filled
      /\ p.failed => Over("PREDICT") /\ order["PREDICT"].filled = 0
      /\ ~q.open => Over("POLYMARKET") /\ q.filled = order["POLYMARKET"].filled
      /\ q.failed => Over("POLYMARKET") /\ order["POLYMARKET"].filled = 0
  BY <1>1, <1>3, ConfirmedLeg DEF SoundJudgement
<1>6. /\ last'.leg["PREDICT"] = p /\ last'.leg["POLYMARKET"] = q
      /\ last'.outcome = Verdict(p, q, attempt)
  BY <1>2, <1>3
<1>7. TypeOK'
  <2>1. Verdict(p, q, attempt) \in Outcomes BY <1>4, VerdictOfLegs
  <2> QED BY <1>1, <1>2, <1>4, <2>1 DEF SoundJudgement, TypeOK, Judgement
<1>8. ReportsAreHistory' BY <1>1 DEF SoundJudgement, ReportsAreHistory
<1>9. LegsAreKnown' BY <1>1, <1>5, <1>6 DEF LegsAreKnown, Over, Venue
<1>10. OutcomeOfLegs' BY <1>4, <1>6, VerdictOfLegs DEF OutcomeOfLegs
<1> QED BY <1>7, <1>8, <1>9, <1>10 DEF SoundJudgement

LEMMA StepSound == SoundJudgement /\ [Next]_vars => SoundJudgement'
<1> SUFFICES ASSUME SoundJudgement, [Next]_vars PROVE SoundJudgement' OBVIOUS
<1>1. CASE \E v \in Venue : OrderMoves(v) BY <1>1, OrderMovesKeeps
<1>2. CASE \E v \in Venue : PlacementAnswered(v) BY <1>2, PlacementAnsweredKeeps
<1>3. CASE TimePasses BY <1>3, TimePassesKeeps
<1>4. CASE Judge BY <1>4, JudgeKeeps
<1>5. CASE UNCHANGED vars
  BY <1>5 DEF vars, SoundJudgement, TypeOK, ReportsAreHistory, LegsAreKnown, Over, OutcomeOfLegs
<1> QED BY <1>1, <1>2, <1>3, <1>4, <1>5 DEF Next

-----------------------------------------------------------------------------
(* Theorems                                                                  *)

(* The inductive invariant holds: what the last judgement knows of a leg is   *)
(* what the venue has, and its outcome follows from its legs.                *)
THEOREM JudgementIsSound == Spec => []SoundJudgement
<1>1. Init => SoundJudgement BY InitSound
<1>2. SoundJudgement /\ [Next]_vars => SoundJudgement' BY StepSound
<1> QED BY <1>1, <1>2, PTL DEF Spec

(* The variables keep their types.                                           *)
THEOREM TypeCorrect == Spec => []TypeOK
<1>1. SoundJudgement => TypeOK BY DEF SoundJudgement
<1> QED BY <1>1, JudgementIsSound, PTL

LEMMA SoundHolds == SoundJudgement => JudgementHolds
<1> SUFFICES ASSUME SoundJudgement PROVE JudgementHolds OBVIOUS
<1> DEFINE p == last.leg["PREDICT"]
           q == last.leg["POLYMARKET"]
           outcome == last.outcome
<1>1. \A v \in Venue : v \in {"PREDICT", "POLYMARKET"} BY DEF Venue
<1>2. Other("PREDICT") = "POLYMARKET" /\ Other("POLYMARKET") = "PREDICT" BY DEF Other, Venue
<1>3. p.filled \in Nat /\ q.filled \in Nat
  BY ReportsAssumption DEF SoundJudgement, TypeOK, Judgement, Confirmation, Venue
<1>4. outcome.rescueVenue \in {"PREDICT", "POLYMARKET", "none"}
  BY DEF SoundJudgement, TypeOK, Judgement, Outcomes, Venue
<1>5. Follows(outcome, p, q) BY DEF SoundJudgement, OutcomeOfLegs
<1>6. /\ ~p.open => p.filled = order["PREDICT"].filled
      /\ ~q.open => q.filled = order["POLYMARKET"].filled
      /\ p.failed => Over("PREDICT") /\ order["PREDICT"].filled = 0
      /\ q.failed => Over("POLYMARKET") /\ order["POLYMARKET"].filled = 0
  BY DEF SoundJudgement, LegsAreKnown, Venue
<1>7. NothingOpen => ~p.open /\ ~q.open BY DEF NothingOpen, Venue
<1>8. outcome.state = "FAILED" => \A v \in Venue : Over(v) /\ order[v].filled = 0
  BY <1>1, <1>5, <1>6 DEF Follows
<1>9. NothingOpen /\ outcome.state = "HEDGED"
      => order["PREDICT"].filled = order["POLYMARKET"].filled
  BY <1>5, <1>6, <1>7 DEF Follows
<1>10. ASSUME NothingOpen, outcome.rescueVenue # "none"
       PROVE  order[outcome.rescueVenue].filled + outcome.residual
                = order[Other(outcome.rescueVenue)].filled
  <2>1. outcome.residual = Distance(p.filled, q.filled) BY <1>5, <1>10 DEF Follows
  <2>2. CASE outcome.rescueVenue = "PREDICT"
    <3>1. p.filled < q.filled BY <1>5, <2>2 DEF Follows
    <3> QED BY <1>2, <1>3, <1>6, <1>7, <1>10, <2>1, <2>2, <3>1 DEF Distance
  <2>3. CASE outcome.rescueVenue = "POLYMARKET"
    <3>1. q.filled < p.filled BY <1>5, <2>3 DEF Follows
    <3> QED BY <1>2, <1>3, <1>6, <1>7, <1>10, <2>1, <2>3, <3>1 DEF Distance
  <2> QED BY <1>4, <1>10, <2>2, <2>3
<1> QED BY <1>8, <1>9, <1>10 DEF JudgementHolds

(* What the judgement of a hedge says of the venues is so, for every number of *)
(* shares, every policy and every order in which the reports arrive.         *)
THEOREM JudgementIsTrue == Spec => []JudgementHolds
BY JudgementIsSound, SoundHolds, PTL

LEMMA SoundAgree == SoundJudgement => OpinionsAgree
<1> SUFFICES ASSUME SoundJudgement, NothingOpen, \A v \in Venue : last.leg[v].confirmed
             PROVE  LET opinion == ReconcileHedgeState(order["PREDICT"], order["POLYMARKET"])
                    IN /\ opinion = "HEDGED" <=> last.outcome.state = "HEDGED"
                       /\ opinion = "UNHEDGED" <=> last.outcome.state \in {"RESCUE", "PAUSED"}
  BY DEF OpinionsAgree
<1> DEFINE p == last.leg["PREDICT"]
           q == last.leg["POLYMARKET"]
           x == order["PREDICT"]
           y == order["POLYMARKET"]
<1>1. p.confirmed /\ q.confirmed /\ Follows(last.outcome, p, q)
  BY DEF SoundJudgement, OutcomeOfLegs, Venue
<1>2. p.filled = x.filled /\ q.filled = y.filled
  BY DEF SoundJudgement, LegsAreKnown, NothingOpen, Venue
<1>3. x \in Order /\ y \in Order BY DEF SoundJudgement, TypeOK, Venue
<1>4. /\ x.filled \in Nat /\ y.filled \in Nat
      /\ x.status = "failed" => x.filled = 0
      /\ y.status = "failed" => y.filled = 0
  BY <1>3, ReportsAssumption DEF Order
<1>5. /\ ReconcileHedgeState(x, y) = "HEDGED" <=> x.filled = y.filled /\ x.filled > 0
      /\ ReconcileHedgeState(x, y) = "UNHEDGED" <=> x.filled # y.filled
  BY <1>4 DEF ReconcileHedgeState
<1> QED BY <1>1, <1>2, <1>5 DEF Follows

(* The two ways of the code to read the reports on a hedge (flow.ts:134 and   *)
(* flow.ts:147) agree once everything is confirmed and over.                 *)
THEOREM Agreement == Spec => []OpinionsAgree
BY JudgementIsSound, SoundAgree, PTL
=============================================================================
