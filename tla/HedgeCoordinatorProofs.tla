------------------------ MODULE HedgeCoordinatorProofs ------------------------
(* Proofs about HedgeCoordinator, for any number of accounts, runs, matches  *)
(* and shares.  What is about the venue is proved for venues that leave no   *)
(* order open, which the run coordinator_delayed shows to be needed.         *)
EXTENDS HedgeCoordinator, PredictAccountsProofs, TLAPS

-----------------------------------------------------------------------------
(* The judgement of safety.ts, as the coordinator uses it.                   *)

Judged(x, y, attempt) ==
  ReconcileExecutionSafety(Confirmed(x), Confirmed(y), Policy, FALSE, attempt)

(* reconcileExecutionSafety (safety.ts:133) names the short side and by how  *)
(* much exactly when the legs differ, and pauses after a failed rescue.      *)
LEMMA Judgement ==
  ASSUME NEW x \in Report(Shares) \cup {NoReport},
         NEW y \in Report(Shares) \cup {NoReport}, NEW attempt
  PROVE  LET p == x.filled
             q == y.filled
             outcome == Judged(x, y, attempt)
         IN /\ p = q => /\ outcome.rescueVenue = "none" /\ outcome.residual = 0
                        /\ ~NeedsRescue(outcome)
            /\ p < q => outcome.rescueVenue = "PREDICT" /\ outcome.residual = q - p
            /\ q < p => outcome.rescueVenue = "POLYMARKET" /\ outcome.residual = p - q
            /\ p # q => NeedsRescue(outcome)
            /\ p # q /\ attempt = "failed" => outcome.state = "PAUSED"
<1> DEFINE p == x.filled
           q == y.filled
<1>1. p \in Nat /\ q \in Nat
  BY CoordinatorAssumption DEF Report, NoReport
<1>2. /\ Confirmed(x).filled = p /\ Confirmed(x).confirmed
      /\ Confirmed(y).filled = q /\ Confirmed(y).confirmed
  BY DEF Confirmed, ConfirmOrderFill
<1>3. ~Policy.postTradeReconcileRequired BY DEF Policy
<1>4. CASE p = q
  <2>1. Judged(x, y, attempt).rescueVenue = "none" /\ Judged(x, y, attempt).residual = 0
    BY <1>1, <1>2, <1>3, <1>4 DEF Judged, ReconcileExecutionSafety, Outcome
  <2> QED BY <1>1, <1>4, <2>1 DEF NeedsRescue
<1>5. CASE p # q
  <2>1. /\ Judged(x, y, attempt).rescueVenue = IF p < q THEN "PREDICT" ELSE "POLYMARKET"
        /\ Judged(x, y, attempt).residual = Distance(p, q)
        /\ attempt = "failed" => Judged(x, y, attempt).state = "PAUSED"
    BY <1>1, <1>2, <1>3, <1>5 DEF Judged, ReconcileExecutionSafety, Outcome
  <2> QED BY <1>1, <1>5, <2>1 DEF NeedsRescue, Distance
<1> QED BY <1>4, <1>5

-----------------------------------------------------------------------------
(* Types                                                                     *)

LEMMA RunTypes ==
  ASSUME NEW r \in Run, TypeOK
  PROVE  /\ run[r] \in RunState
         /\ NoRun \in RunState
         /\ \A pc \in Resting \cup {"scanning"} : [NoRun EXCEPT !.pc = pc] \in RunState
<1>1. NumAccounts \in Account BY AccountsAssumption DEF Account
<1>2. Unanswered \in [Venue -> Report(Shares) \cup {NoReport}] BY DEF Unanswered
<1>3. NoRun \in RunState
  BY <1>1, <1>2, CoordinatorAssumption DEF NoRun, RunState, Resting, Engaged
<1> QED BY <1>3 DEF TypeOK, RunState, Resting, Engaged

LEMMA GotoType ==
  ASSUME TypeOK, NEW r \in Run, NEW pc \in Resting \cup {"scanning"}, Goto(r, pc)
  PROVE  run' \in [Run -> RunState]
BY RunTypes DEF Goto, TypeOK

LEMMA MatchEndsType ==
  ASSUME TypeOK, NEW r \in Run, run[r].left > 0, MatchEnds(r)
  PROVE  run' \in [Run -> RunState]
<1>1. run[r].left - 1 \in 0..MaxMatches /\ run[r].dry \in BOOLEAN
  BY CoordinatorAssumption DEF TypeOK, RunState
<1>2. NoRun \in RunState BY RunTypes
<1> DEFINE new == [NoRun EXCEPT !.pc = "scanning", !.dry = run[r].dry,
                                !.left = run[r].left - 1]
<1>3. new \in RunState BY <1>1, <1>2 DEF RunState, Engaged
<1> QED BY <1>3 DEF MatchEnds, TypeOK

(* The answers of the venues are reports, and what they say is executed.     *)
LEMMA AnswerTypes ==
  ASSUME NEW n \in 0..Shares, NEW report \in Answers(n)
  PROVE  report \in Report(Shares)
BY CoordinatorAssumption DEF Answers, Report, OrderStatus

LEMMA ExecutedType ==
  ASSUME TypeOK, NEW a \in Account, NEW n \in 0..Shares, NEW report \in Answers(n),
         Executed(a, report)
  PROVE  position' \in [Account -> Position] /\ working' \in [Account -> BOOLEAN]
<1>1. IsOpen(report) \in BOOLEAN BY DEF IsOpen
<1> QED BY <1>1 DEF Executed, TypeOK, Position

(* buildResidualRescueOrder (safety.ts:194) never orders more than the other *)
(* leg has filled: rescued, a leg still holds at most the shares of a hedge. *)
LEMMA RescueType ==
  ASSUME TypeOK, NEW r \in Run, NEW report \in Answers(SafetyOutcome(r).residual)
  PROVE  LET v == SafetyOutcome(r).rescueVenue
         IN /\ SafetyOutcome(r).residual \in 0..Shares
            /\ v \in Venue => CombineResults(run[r].leg[v], report) \in Report(Shares)
            /\ v \in Venue \/ v = "none"
<1> DEFINE x == run[r].leg["PREDICT"]
           y == run[r].leg["POLYMARKET"]
           p == x.filled
           q == y.filled
           v == SafetyOutcome(r).rescueVenue
           n == SafetyOutcome(r).residual
<1>1. x \in Report(Shares) \cup {NoReport} /\ y \in Report(Shares) \cup {NoReport}
  BY DEF TypeOK, RunState, Venue
<1>2. p \in 0..Shares /\ q \in 0..Shares
  BY <1>1, CoordinatorAssumption DEF Report, NoReport
<1>3. SafetyOutcome(r) = Judged(x, y, run[r].attempt) BY DEF SafetyOutcome, Judged
<1>4. /\ p = q => v = "none" /\ n = 0
      /\ p < q => v = "PREDICT" /\ n = q - p
      /\ q < p => v = "POLYMARKET" /\ n = p - q
  BY <1>1, <1>3, Judgement
<1>5. n \in 0..Shares BY <1>2, <1>4, CoordinatorAssumption
<1>6. report.filled \in 0..n /\ report.status \in OrderStatus
  BY <1>5, CoordinatorAssumption DEF Answers, OrderStatus
<1>7. v \in Venue \/ v = "none" BY <1>2, <1>4 DEF Venue
<1>8. v \in Venue => run[r].leg[v].filled + report.filled \in 0..Shares
  BY <1>2, <1>4, <1>5, <1>6, CoordinatorAssumption DEF Venue
<1>9. v \in Venue => CombineResults(run[r].leg[v], report) \in Report(Shares)
  BY <1>6, <1>8 DEF CombineResults, Report, OrderStatus
<1> QED BY <1>5, <1>7, <1>9

LEMMA InitType == Init => TypeOK
<1>1. Loaded(FALSE) \in AccountState
  BY DEF Loaded, AccountState, Status
<1>2. HeldFromPosition(Loaded(FALSE), "open") \in AccountState
  BY <1>1, MethodsKeep DEF Keeps, Position
<1>3. NumAccounts \in Account BY AccountsAssumption DEF Account
<1>4. Unanswered \in [Venue -> Report(Shares) \cup {NoReport}] BY DEF Unanswered
<1>5. NoRun \in RunState
  BY <1>3, <1>4, CoordinatorAssumption DEF NoRun, RunState, Resting, Engaged
<1>6. SUFFICES ASSUME Init PROVE TypeOK OBVIOUS
<1>7. accounts \in [Account -> AccountState]
  <2> SUFFICES ASSUME NEW a \in Account PROVE accounts[a] \in AccountState
    BY <1>6 DEF Init
  <2>1. position[a] \in {"flat", "open"} BY <1>6 DEF Init
  <2> QED BY <1>1, <1>2, <1>6, <2>1 DEF Init
<1>8. position \in [Account -> Position] BY <1>6 DEF Init, Position
<1> QED BY <1>3, <1>5, <1>6, <1>7, <1>8 DEF Init, TypeOK, Idle, Job, NoAudit, Position

\* Methods change one record; the result is a record again.
LEMMA RecordTypes ==
  ASSUME TypeOK, NEW a \in Account
  PROVE  LET acc == accounts[a]
         IN \A new \in {Reserved(acc), Released(acc), Released(Reserved(acc)),
                        MarkedRedeeming(acc), MarkedAwaitingResolution(acc)}
                       \cup {HeldFromPosition(acc, p) : p \in Position}
                       \cup {MarkedHeld(acc, "pending", p) : p \in Position} :
              /\ new \in AccountState
              /\ [accounts EXCEPT ![a] = new] \in [Account -> AccountState]
<1> DEFINE acc == accounts[a]
<1>1. acc \in AccountState BY DEF TypeOK
<1>2. Reserved(acc) \in AccountState
  BY <1>1, MethodEffects DEF AccountState, Status, Position
<1>3. /\ Released(acc) \in AccountState
      /\ Released(Reserved(acc)) \in AccountState
  BY <1>1, <1>2, ReleaseType
<1>4. /\ MarkedRedeeming(acc) \in AccountState
      /\ MarkedAwaitingResolution(acc) \in AccountState
      /\ \A p \in Position : HeldFromPosition(acc, p) \in AccountState
      /\ \A p \in Position : MarkedHeld(acc, "pending", p) \in AccountState
  BY <1>1, MethodsKeep DEF Keeps
<1> QED BY <1>2, <1>3, <1>4 DEF TypeOK

(* The records, venue and job stay well-formed under every action.           *)
LEMMA SettlementType == TypeOK /\ Settlement => TypeOK'
<1> SUFFICES ASSUME TypeOK, Settlement PROVE TypeOK' OBVIOUS
<1>1. ASSUME NEW a \in Account, RedeemBegin(a) PROVE TypeOK'
  BY <1>1, RecordTypes DEF RedeemBegin, Settlement, TypeOK, Job
<1>2. ASSUME NEW a \in Account, ReleaseFlat(a) PROVE TypeOK'
  BY <1>2, RecordTypes DEF ReleaseFlat, Settlement, TypeOK
<1>3. CASE RedeemExecutes
  BY <1>3 DEF RedeemExecutes, Settlement, TypeOK, Job, Position
<1>4. CASE RedeemThrows
  BY <1>4, AccountsAssumption DEF RedeemThrows, Settlement, TypeOK, Job, Idle, Account
<1>5. CASE RedeemRelease
  <2>1. job.account \in Account BY DEF TypeOK, Job
  <2>2. accounts' \in [Account -> AccountState]
    BY <1>5, <2>1, RecordTypes DEF RedeemRelease
  <2> QED BY <1>5, <2>2, AccountsAssumption
          DEF RedeemRelease, Settlement, TypeOK, Job, Idle, Account
<1>6. CASE AdvanceHeldStateByTime
  <2>1. accounts' \in [Account -> AccountState]
    BY <1>6, RecordTypes DEF AdvanceHeldStateByTime, TypeOK
  <2> QED BY <1>6, <2>1 DEF AdvanceHeldStateByTime, Settlement, TypeOK
<1>7. ASSUME NEW a \in Account, MarketMoves(a) PROVE TypeOK'
  BY <1>7 DEF MarketMoves, Settlement, TypeOK, Position
<1> QED BY <1>1, <1>2, <1>3, <1>4, <1>5, <1>6, <1>7 DEF Settlement, RedeemSettled

LEMMA RunOnceType == ASSUME TypeOK, NEW r \in Run, RunOnce(r) PROVE TypeOK'
<1>1. CASE Begin(r)
  <2>1. ASSUME NEW dry \in BOOLEAN, NEW n \in 0..MaxMatches
        PROVE  [NoRun EXCEPT !.pc = "scanning", !.dry = dry, !.left = n] \in RunState
    BY RunTypes DEF RunState, Engaged
  <2>2. run' \in [Run -> RunState]
    <3>1. CASE Goto(r, "paused") BY <3>1, GotoType DEF Resting
    <3>2. CASE \E dry \in BOOLEAN, n \in 0..MaxMatches :
                 run' = [run EXCEPT ![r] = [NoRun EXCEPT !.pc = "scanning", !.dry = dry,
                                                         !.left = n]]
      BY <2>1, <3>2 DEF TypeOK
    <3> QED BY <1>1, <3>1, <3>2 DEF Begin
  <2> QED BY <1>1, <2>2 DEF Begin, TypeOK
<1>2. CASE PassOver(r) BY <1>2, MatchEndsType DEF PassOver, TypeOK
<1>3. CASE Place(r)
  <2>1. PICK a \in Account :
          /\ accounts' = [accounts EXCEPT ![a] = Reserved(@)]
          /\ lastIndex' = a
          /\ run' = [run EXCEPT ![r].pc = "placing", ![r].account = a,
                                ![r].leg = IF run[r].dry THEN DryLegs ELSE Unanswered]
    BY <1>3 DEF Place
  <2>2. DryLegs \in [Venue -> Report(Shares) \cup {NoReport}]
    BY CoordinatorAssumption DEF DryLegs, Report, OrderStatus
  <2>3. Unanswered \in [Venue -> Report(Shares) \cup {NoReport}] BY DEF Unanswered
  <2> DEFINE new == [run[r] EXCEPT !.pc = "placing", !.account = a,
                                   !.leg = IF run[r].dry THEN DryLegs ELSE Unanswered]
  <2>4. run' \in [Run -> RunState]
    <3>1. run[r] \in RunState /\ run[r].left > 0 BY <1>3 DEF TypeOK, Place
    <3>2. new \in RunState BY <2>2, <2>3, <3>1 DEF RunState, Engaged
    <3>3. run' = [run EXCEPT ![r] = new] BY <2>1
    <3> QED BY <3>2, <3>3 DEF TypeOK
  <2>5. accounts' \in [Account -> AccountState] BY <2>1, RecordTypes
  <2> QED BY <1>3, <2>1, <2>4, <2>5 DEF Place, TypeOK
<1>4. CASE RefusePlan(r)
  <2>1. accounts' \in [Account -> AccountState] /\ lastIndex' \in Account
    BY <1>4, RecordTypes DEF RefusePlan
  <2> QED BY <1>4, <2>1, MatchEndsType DEF RefusePlan, TypeOK
<1>5. ASSUME NEW v \in Venue, Answer(r, v) PROVE TypeOK'
  <2>1. PICK report \in Answers(Shares) :
          /\ run' = [run EXCEPT ![r].leg[v] = report]
          /\ \/ Executed(run[r].account, report)
             \/ UNCHANGED <<position, working>>
    BY <1>5 DEF Answer
  <2>2. report \in Report(Shares) BY AnswerTypes, CoordinatorAssumption
  <2>3. run' \in [Run -> RunState]
    <3> DEFINE new == [run[r] EXCEPT !.leg = [run[r].leg EXCEPT ![v] = report]]
    <3>1. run[r] \in RunState BY DEF TypeOK
    <3>2. [run[r].leg EXCEPT ![v] = report] \in [Venue -> Report(Shares) \cup {NoReport}]
      BY <2>2, <3>1 DEF RunState
    <3>3. new \in RunState BY <3>1, <3>2 DEF RunState
    <3>4. run' = [run EXCEPT ![r] = new] BY <2>1
    <3> QED BY <3>3, <3>4 DEF TypeOK
  <2>4. position' \in [Account -> Position] /\ working' \in [Account -> BOOLEAN]
    <3>1. run[r].account \in Account BY DEF TypeOK, RunState
    <3> QED BY <2>1, <3>1, ExecutedType, CoordinatorAssumption DEF TypeOK
  <2> QED BY <1>5, <2>3, <2>4 DEF Answer, TypeOK
<1>6. CASE OrderRejects(r)
  <2>1. run' \in [Run -> RunState] BY <1>6, GotoType DEF OrderRejects, Resting
  <2>2. working' \in [Account -> BOOLEAN]
    BY <1>6 DEF OrderRejects, Abandoned, TypeOK
  <2> QED BY <1>6, <2>1, <2>2 DEF OrderRejects, TypeOK
<1>7. CASE Collect(r)
  <2>1. PICK pc \in {"rescuing", "recording"} : run' = [run EXCEPT ![r].pc = pc]
    BY <1>7 DEF Collect
  <2>2. run[r] \in RunState /\ run[r].left > 0
    BY <1>7 DEF TypeOK, RunState, Engaged, Collect
  <2>3. [run[r] EXCEPT !.pc = pc] \in RunState BY <2>2 DEF RunState, Engaged
  <2> QED BY <1>7, <2>1, <2>3 DEF Collect, TypeOK
<1>8. CASE Rescue(r)
  <2> DEFINE v == SafetyOutcome(r).rescueVenue
             n == SafetyOutcome(r).residual
  <2>1. PICK report \in Answers(n) :
          /\ run' = [run EXCEPT ![r].pc = "recording",
                                ![r].leg[v] = CombineResults(@, report),
                                ![r].attempt = IF report.filled >= n
                                               THEN "succeeded" ELSE "failed"]
          /\ \/ Executed(run[r].account, report)
             \/ UNCHANGED <<position, working>>
    BY <1>8 DEF Rescue
  <2>2. /\ n \in 0..Shares
        /\ v \in Venue => CombineResults(run[r].leg[v], report) \in Report(Shares)
        /\ v \in Venue \/ v = "none"
    BY RescueType
  <2>3. [run[r].leg EXCEPT ![v] = CombineResults(@, report)]
          \in [Venue -> Report(Shares) \cup {NoReport}]
    <3>1. run[r].leg \in [Venue -> Report(Shares) \cup {NoReport}]
      BY DEF TypeOK, RunState
    <3>2. CASE v \in Venue BY <2>2, <3>1, <3>2
    <3>3. CASE v = "none"
      <4>1. v \notin Venue BY <3>3 DEF Venue
      <4> QED BY <3>1, <4>1
    <3> QED BY <2>2, <3>2, <3>3
  <2>4. run' \in [Run -> RunState]
    <3> DEFINE new == [run[r] EXCEPT !.pc = "recording",
                                     !.leg = [run[r].leg EXCEPT
                                                ![v] = CombineResults(@, report)],
                                     !.attempt = IF report.filled >= n
                                                 THEN "succeeded" ELSE "failed"]
    <3>1. run[r] \in RunState /\ run[r].left > 0
      BY <1>8 DEF TypeOK, RunState, Engaged, Rescue
    <3>2. new \in RunState BY <2>3, <3>1 DEF RunState, Engaged
    <3>3. run' = [run EXCEPT ![r] = new] BY <2>1
    <3> QED BY <3>2, <3>3 DEF TypeOK
  <2>5. position' \in [Account -> Position] /\ working' \in [Account -> BOOLEAN]
    <3>1. run[r].account \in Account BY DEF TypeOK, RunState
    <3> QED BY <2>1, <2>2, <3>1, ExecutedType DEF TypeOK
  <2> QED BY <1>8, <2>4, <2>5 DEF Rescue, TypeOK
<1>9. CASE Finish(r)
  <2>1. run[r].account \in Account /\ position[run[r].account] \in Position
    BY DEF TypeOK, RunState
  <2>2. accounts' \in [Account -> AccountState]
    BY <1>9, <2>1, RecordTypes DEF Finish, Finished
  <2>3. run' \in [Run -> RunState]
    <3>1. CASE Goto(r, "paused") BY <3>1, GotoType DEF Resting
    <3>2. CASE MatchEnds(r) /\ run[r].left > 0 BY <3>2, MatchEndsType
    <3>3. run[r].left > 0 BY <1>9 DEF Finish, TypeOK, RunState, Engaged
    <3> QED BY <1>9, <3>1, <3>2, <3>3 DEF Finish
  <2> QED BY <1>9, <2>2, <2>3 DEF Finish, TypeOK
<1>10. CASE Throw(r) BY <1>10, GotoType DEF Throw, TypeOK, Resting
<1>11. CASE End(r) BY <1>11, GotoType DEF End, TypeOK, Resting
<1> QED BY <1>1, <1>2, <1>3, <1>4, <1>5, <1>6, <1>7, <1>8, <1>9, <1>10, <1>11
        DEF RunOnce

LEMMA NextType == TypeOK /\ [Next]_vars => TypeOK'
<1> SUFFICES ASSUME TypeOK, [Next]_vars PROVE TypeOK' OBVIOUS
<1>1. ASSUME NEW r \in Run, RunOnce(r) PROVE TypeOK' BY <1>1, RunOnceType
<1>2. ASSUME NEW a \in Account, OrderEnds(a) PROVE TypeOK'
  BY <1>2 DEF OrderEnds, TypeOK, Position
<1>3. ASSUME NEW a \in Account, AuditAnswers(a) PROVE TypeOK'
  BY <1>3 DEF AuditAnswers, TypeOK
<1>4. CASE AuditMarks
  <2>1. audit.account \in Account /\ AtHand(audit.account, audit.found) \in Position
    BY DEF TypeOK, AtHand, Position
  <2>2. accounts' \in [Account -> AccountState]
    BY <1>4, <2>1, RecordTypes DEF AuditMarks
  <2>3. audit' \in [account : Account, found : Position]
    BY <1>4, AccountsAssumption DEF AuditMarks, NoAudit, Account, Position
  <2> QED BY <1>4, <2>1, <2>2, <2>3 DEF AuditMarks, TypeOK
<1>5. CASE Settlement BY <1>5, SettlementType
<1>6. CASE Restart
  <2>1. Loaded(FALSE) \in AccountState BY DEF Loaded, AccountState, Status
  <2>2. NumAccounts \in Account BY AccountsAssumption DEF Account
  <2>3. run' \in [Run -> RunState]
    <3>1. ASSUME NEW r \in Run PROVE [NoRun EXCEPT !.pc = "threw"] \in RunState
      BY RunTypes DEF Resting
    <3> QED BY <1>6, <3>1 DEF Restart
  <2>4. working' \in [Account -> BOOLEAN] BY <1>6 DEF Restart
  <2>5. blind' \subseteq Account BY <1>6 DEF Restart, TypeOK
  <2> QED BY <1>6, <2>1, <2>2, <2>3, <2>4, <2>5
          DEF Restart, TypeOK, Idle, Job, NoAudit, Position
<1>7. CASE UNCHANGED vars BY <1>7 DEF vars, TypeOK
<1> QED BY <1>1, <1>2, <1>3, <1>4, <1>5, <1>6, <1>7 DEF Next, Audit

(* The coordinator, the jobs and a restart keep every record, run and answer *)
(* well-formed (coordinator.ts:104).                                         *)
THEOREM TypeCorrect == Spec => []TypeOK
BY InitType, NextType, PTL DEF Spec

-----------------------------------------------------------------------------
(* The inductive invariant                                                   *)

\* The parts that are about runs alone, and the parts that are about the venue.
RunParts == DryIsComplete /\ RescueIsDue
VenueParts == /\ PlainRecords /\ EngagedAccount /\ ReportIsTrue /\ RedeemsAlone
              /\ WorkingOrder /\ OneRunPerAccount /\ ReadyIsFlat

\* Run r is not, or no longer, at work on an account.
Idles(r) == /\ run'[r].pc \notin Engaged
            /\ run'[r].leg = Unanswered
            /\ \A q \in Run \ {r} : run'[q] = run[q]

LEMMA GotoIdles ==
  ASSUME TypeOK, NEW r \in Run,
         \/ \E pc \in Resting : Goto(r, pc)
         \/ \E dry \in BOOLEAN, n \in 0..MaxMatches :
              run' = [run EXCEPT ![r] = [NoRun EXCEPT !.pc = "scanning", !.dry = dry,
                                                      !.left = n]]
         \/ MatchEnds(r)
  PROVE  Idles(r)
<1>1. PICK new : /\ run' = [run EXCEPT ![r] = new]
                 /\ new.pc \notin Engaged
                 /\ new.leg = Unanswered
  <2>1. CASE \E pc \in Resting : Goto(r, pc)
    <3>1. PICK pc \in Resting : run' = [run EXCEPT ![r] = [NoRun EXCEPT !.pc = pc]]
      BY <2>1 DEF Goto
    <3>2. LET new == [NoRun EXCEPT !.pc = pc]
          IN new.pc \notin Engaged /\ new.leg = Unanswered
      BY DEF NoRun, Engaged, Resting
    <3> QED BY <3>1, <3>2
  <2>2. CASE \E dry \in BOOLEAN, n \in 0..MaxMatches :
               run' = [run EXCEPT ![r] = [NoRun EXCEPT !.pc = "scanning", !.dry = dry,
                                                       !.left = n]]
    <3>1. ASSUME NEW dry, NEW n
          PROVE  LET new == [NoRun EXCEPT !.pc = "scanning", !.dry = dry, !.left = n]
                 IN new.pc \notin Engaged /\ new.leg = Unanswered
      BY DEF NoRun, Engaged
    <3> QED BY <2>2, <3>1
  <2>3. CASE MatchEnds(r)
    <3>1. LET new == [NoRun EXCEPT !.pc = "scanning", !.dry = run[r].dry,
                                   !.left = run[r].left - 1]
          IN new.pc \notin Engaged /\ new.leg = Unanswered
      BY DEF NoRun, Engaged
    <3> QED BY <2>3, <3>1 DEF MatchEnds
  <2> QED BY <2>1, <2>2, <2>3
<1> QED BY <1>1 DEF Idles, TypeOK

LEMMA IdlesRunParts ==
  ASSUME RunParts, NEW r \in Run, Idles(r)
  PROVE  RunParts'
BY DEF RunParts, DryIsComplete, RescueIsDue, Idles, Unanswered, Venue, Engaged

(* A run that stops or goes on to another match, while nothing else changes. *)
LEMMA IdlesVenueParts ==
  ASSUME TypeOK, VenueParts, NEW r \in Run, Idles(r),
         UNCHANGED <<accounts, position, job, working, blind>>
  PROVE  VenueParts'
BY DEF VenueParts, PlainRecords, EngagedAccount, ReportIsTrue, RedeemsAlone, WorkingOrder,
       OneRunPerAccount, ReadyIsFlat, Idles, On, TypeOK, IsReady

(* Picking an account: FirstReady leaves only a READY one, which is flat.    *)
LEMMA PlaceSound ==
  ASSUME TypeOK, TypeOK', RunParts, VenueParts, NEW r \in Run, Place(r)
  PROVE  RunParts' /\ VenueParts'
<1>1. PICK a \in Account :
        /\ FirstReady(a)
        /\ accounts' = [accounts EXCEPT ![a] = Reserved(@)]
        /\ run' = [run EXCEPT ![r].pc = "placing", ![r].account = a,
                              ![r].leg = IF run[r].dry THEN DryLegs ELSE Unanswered]
  BY DEF Place
<1>2. IsReady(accounts[a]) BY <1>1 DEF FirstReady
<1>3. /\ run'[r].pc = "placing" /\ run'[r].account = a /\ run'[r].dry = run[r].dry
      /\ run'[r].leg = IF run[r].dry THEN DryLegs ELSE Unanswered
      /\ \A q \in Run \ {r} : run'[q] = run[q]
      /\ ~On(r, a)
  BY <1>1 DEF TypeOK, RunState, Place, On, Engaged
<1>4. /\ accounts'[a].status # "READY" /\ accounts'[a].held = "none"
      /\ accounts'[a].cooldown = accounts[a].cooldown
      /\ accounts'[a].orders = accounts[a].orders
      /\ \A b \in Account \ {a} : accounts'[b] = accounts[b]
  <2>1. accounts[a] \in AccountState /\ accounts'[a] = Reserved(accounts[a])
    BY <1>1 DEF TypeOK
  <2>2. accounts'[a] = [accounts[a] EXCEPT !.status = "COOLDOWN"]
    BY <2>1, MethodEffects DEF Position
  <2> QED BY <1>1, <1>2, <2>1, <2>2 DEF TypeOK, IsReady, AccountState
<1>5. UNCHANGED <<position, job, working, audit, blind>> BY DEF Place
<1>6. \A q \in Run \ {r} : \A b \in Account : On(q, b)' <=> On(q, b)
  BY <1>3 DEF On
<1>7. \A b \in Account : On(r, b)' <=> b = a
  BY <1>3 DEF On, Engaged
<1>8. \A b \in Account \ {a} : IsReady(accounts[b])' <=> IsReady(accounts[b])
  BY <1>4 DEF IsReady
<1>9. a \notin blind => /\ position[a] = "flat" /\ ~working[a]
                       /\ \A q \in Run : ~On(q, a)
                       /\ ~(job.step # "idle" /\ job.account = a)
  BY <1>2 DEF VenueParts, ReadyIsFlat, EngagedAccount, RedeemsAlone, IsReady
<1>10. RunParts'
  BY <1>3 DEF RunParts, DryIsComplete, RescueIsDue
<1>11. PlainRecords' BY <1>4 DEF VenueParts, PlainRecords
<1>12. EngagedAccount'
  BY <1>4, <1>5, <1>6, <1>7, <1>9 DEF VenueParts, EngagedAccount
<1>13. ReportIsTrue'
  BY <1>3, <1>5, <1>6, <1>7, <1>9 DEF VenueParts, ReportIsTrue, Unanswered, NoReport, Venue
<1>14. RedeemsAlone'
  BY <1>4, <1>5, <1>6, <1>7, <1>9 DEF VenueParts, RedeemsAlone
<1>15. WorkingOrder' BY <1>4, <1>5, <1>9 DEF VenueParts, WorkingOrder
<1>16. OneRunPerAccount'
  BY <1>5, <1>6, <1>7, <1>9 DEF VenueParts, OneRunPerAccount
<1>17. ReadyIsFlat' BY <1>4, <1>5, <1>8 DEF VenueParts, ReadyIsFlat, IsReady
<1> QED BY <1>10, <1>11, <1>12, <1>13, <1>14, <1>15, <1>16, <1>17 DEF VenueParts

(* A refused plan gives back the account it took, which was flat.            *)
LEMMA RefusePlanSound ==
  ASSUME TypeOK, RunParts, VenueParts, NEW r \in Run, RefusePlan(r)
  PROVE  RunParts' /\ VenueParts'
<1>1. PICK a \in Account :
        /\ FirstReady(a)
        /\ accounts' = [accounts EXCEPT ![a] = Released(Reserved(@))]
  BY DEF RefusePlan
<1>2. IsReady(accounts[a]) BY <1>1 DEF FirstReady
<1>3. /\ accounts'[a].held = "none" /\ accounts[a].held = "none"
      /\ ~accounts'[a].orders /\ accounts'[a].cooldown = accounts[a].cooldown
      /\ accounts[a].status = "READY" /\ accounts'[a].status = "READY"
      /\ \A b \in Account \ {a} : accounts'[b] = accounts[b]
  <2> DEFINE acc == accounts[a]
  <2>1. acc \in AccountState /\ accounts'[a] = Released(Reserved(acc))
    BY <1>1 DEF TypeOK
  <2>2. Reserved(acc) \in AccountState /\ Reserved(acc).cooldown = acc.cooldown
    BY <2>1, MethodEffects DEF Position, AccountState, Status
  <2>3. /\ accounts'[a].held = "none" /\ accounts'[a].status = "READY"
        /\ ~accounts'[a].orders /\ accounts'[a].cooldown = acc.cooldown
    BY <2>1, <2>2, MethodEffects DEF Position
  <2> QED BY <1>1, <1>2, <2>3 DEF TypeOK, IsReady
<1>4. UNCHANGED <<position, job, working, blind>> BY DEF RefusePlan
<1>5. Idles(r) BY GotoIdles DEF RefusePlan
<1>6. \A q \in Run : \A b \in Account : On(q, b)' => On(q, b) /\ run'[q] = run[q]
  BY <1>5 DEF On, Idles
<1>7. a \notin blind => position[a] = "flat" /\ ~working[a] /\ \A q \in Run : ~On(q, a)
  BY <1>2 DEF VenueParts, ReadyIsFlat, EngagedAccount, IsReady
<1>8. RunParts' BY <1>5, IdlesRunParts
<1>9. PlainRecords' BY <1>3 DEF VenueParts, PlainRecords
<1>10. EngagedAccount' BY <1>3, <1>4, <1>6, <1>7 DEF VenueParts, EngagedAccount
<1>11. ReportIsTrue' BY <1>4, <1>6 DEF VenueParts, ReportIsTrue
<1>12. RedeemsAlone' BY <1>3, <1>4, <1>6, <1>7 DEF VenueParts, RedeemsAlone
<1>13. WorkingOrder' BY <1>3, <1>4, <1>7 DEF VenueParts, WorkingOrder
<1>14. OneRunPerAccount' BY <1>4, <1>6 DEF VenueParts, OneRunPerAccount
<1>15. ReadyIsFlat' BY <1>3, <1>4, <1>7 DEF VenueParts, ReadyIsFlat, IsReady
<1> QED BY <1>8, <1>9, <1>10, <1>11, <1>12, <1>13, <1>14, <1>15 DEF VenueParts

(* What an engaged run knows of its account.                                 *)
LEMMA EngagedFacts ==
  ASSUME TypeOK, VenueParts, NEW r \in Run, run[r].pc \in Engaged
  PROVE  LET a == run[r].account
         IN /\ a \in Account /\ On(r, a)
            /\ a \notin blind =>
                 /\ accounts[a].status # "READY" /\ ~working[a]
                 /\ position[a] \in {"flat", "open"}
                 /\ accounts[a].held # "none" => position[a] = "open"
                 /\ position[a] = "flat" <=> run[r].dry \/ run[r].leg["PREDICT"].filled = 0
                 /\ \A q \in Run : On(q, a) => q = r
                 /\ ~(job.step # "idle" /\ job.account = a)
<1>1. run[r].account \in Account BY DEF TypeOK, RunState
<1>2. On(r, run[r].account) BY DEF On
<1> QED BY <1>1, <1>2 DEF VenueParts, EngagedAccount, ReportIsTrue, OneRunPerAccount,
                          RedeemsAlone

(* What an executed Predict order does to the venue parts: it shows in the   *)
(* report of the run it belongs to, and no other run is on the account.      *)
LEMMA FillSound ==
  ASSUME ~DelayedOrders, TypeOK, VenueParts, NEW r \in Run, run[r].pc \in Engaged,
         NEW n \in 0..Shares, NEW report \in Answers(n),
         Executed(run[r].account, report),
         ~run[r].dry, run'[r].dry = run[r].dry,
         run'[r].pc \in Engaged, run'[r].account = run[r].account,
         run'[r].leg["PREDICT"].filled = run[r].leg["PREDICT"].filled + report.filled,
         run[r].leg["PREDICT"].filled \in Nat,
         \A q \in Run \ {r} : run'[q] = run[q],
         UNCHANGED <<accounts, job, blind>>
  PROVE  VenueParts'
<1> DEFINE a == run[r].account
<1>1. /\ a \in Account /\ On(r, a)
      /\ a \notin blind =>
           /\ accounts[a].status # "READY" /\ ~working[a]
           /\ position[a] \in {"flat", "open"}
           /\ accounts[a].held # "none" => position[a] = "open"
           /\ position[a] = "flat" <=> run[r].dry \/ run[r].leg["PREDICT"].filled = 0
           /\ \A q \in Run : On(q, a) => q = r
           /\ ~(job.step # "idle" /\ job.account = a)
  BY EngagedFacts
<1>2. ~IsOpen(report) /\ report.filled \in Nat
  BY CoordinatorAssumption DEF Answers, IsOpen
<1>3. /\ position'[a] = IF report.filled > 0 THEN "open" ELSE position[a]
      /\ \A b \in Account \ {a} : position'[b] = position[b]
      /\ \A b \in Account : working'[b] = working[b]
  BY <1>1, <1>2 DEF Executed, TypeOK
<1>4. \A q \in Run : \A b \in Account : On(q, b)' <=> On(q, b)
  BY DEF On
<1>5. PlainRecords' BY DEF VenueParts, PlainRecords
<1>6. EngagedAccount' BY <1>1, <1>3, <1>4 DEF VenueParts, EngagedAccount
<1>7. ReportIsTrue'
  <2> SUFFICES ASSUME NEW q \in Run, NEW b \in Account \ blind, On(q, b)
               PROVE  position'[b] = "flat" <=>
                        run'[q].dry \/ run'[q].leg["PREDICT"].filled = 0
    BY <1>4 DEF ReportIsTrue
  <2>1. CASE q = r
    <3> DEFINE k == run[r].leg["PREDICT"].filled
    <3>1. b = a BY <2>1 DEF On
    <3>2. position[a] = "flat" <=> k = 0 BY <1>1, <3>1
    <3>3. position'[a] = "flat" <=> k = 0 /\ report.filled = 0
      BY <1>2, <1>3, <3>2
    <3>4. k + report.filled = 0 <=> k = 0 /\ report.filled = 0 BY <1>2
    <3> QED BY <2>1, <3>1, <3>3, <3>4
  <2>2. CASE q # r
    <3>1. b # a BY <1>1, <2>2
    <3> QED BY <1>3, <2>2, <3>1 DEF VenueParts, ReportIsTrue
  <2> QED BY <2>1, <2>2
<1>8. RedeemsAlone' BY <1>1, <1>3, <1>4 DEF VenueParts, RedeemsAlone
<1>9. WorkingOrder' BY <1>1, <1>3 DEF VenueParts, WorkingOrder
<1>10. OneRunPerAccount' BY <1>4 DEF VenueParts, OneRunPerAccount
<1>11. ReadyIsFlat' BY <1>1, <1>3 DEF VenueParts, ReadyIsFlat, IsReady
<1> QED BY <1>5, <1>6, <1>7, <1>8, <1>9, <1>10, <1>11 DEF VenueParts

(* A step of an engaged run that leaves venue and records alone.             *)
LEMMA StaySound ==
  ASSUME TypeOK, VenueParts, NEW r \in Run, run[r].pc \in Engaged,
         run'[r].dry = run[r].dry,
         run'[r].pc \in Engaged, run'[r].account = run[r].account,
         run'[r].leg["PREDICT"].filled = run[r].leg["PREDICT"].filled,
         \A q \in Run \ {r} : run'[q] = run[q],
         UNCHANGED <<accounts, position, job, working, blind>>
  PROVE  VenueParts'
<1>1. \A q \in Run : \A b \in Account : On(q, b)' <=> On(q, b)
  BY DEF On
<1>2. \A q \in Run : /\ run'[q].dry = run[q].dry
                     /\ run'[q].leg["PREDICT"].filled = run[q].leg["PREDICT"].filled
  OBVIOUS
<1> QED BY <1>1, <1>2 DEF VenueParts, PlainRecords, EngagedAccount, ReportIsTrue,
                          RedeemsAlone, WorkingOrder, OneRunPerAccount, ReadyIsFlat, IsReady

LEMMA AnswerSound ==
  ASSUME ~DelayedOrders, TypeOK, RunParts, VenueParts,
         NEW r \in Run, NEW v \in Venue, Answer(r, v)
  PROVE  RunParts' /\ VenueParts'
<1>1. PICK report \in Answers(Shares) :
        /\ run' = [run EXCEPT ![r].leg[v] = report]
        /\ IF v = "PREDICT" THEN Executed(run[r].account, report)
           ELSE UNCHANGED <<position, working>>
  BY DEF Answer
<1>2. /\ run[r].pc = "placing" /\ run[r].leg[v] = NoReport
      /\ UNCHANGED <<accounts, job, blind>>
      /\ run[r] \in RunState
  BY DEF Answer, TypeOK
<1>3. run[r].leg \in [Venue -> Report(Shares) \cup {NoReport}] BY <1>2 DEF RunState
<1>4. /\ run'[r].pc = "placing" /\ run'[r].dry = run[r].dry
      /\ run'[r].account = run[r].account
      /\ run'[r].leg = [run[r].leg EXCEPT ![v] = report]
      /\ \A q \in Run \ {r} : run'[q] = run[q]
  BY <1>1, <1>2 DEF TypeOK, RunState
<1>5. ~run[r].dry
  BY <1>2 DEF RunParts, DryIsComplete, DryLegs, NoReport, Engaged
<1>6. RunParts' BY <1>4, <1>5 DEF RunParts, DryIsComplete, RescueIsDue
<1>7. CASE v = "PREDICT"
  <2>1. /\ run[r].leg["PREDICT"].filled = 0
        /\ run'[r].leg["PREDICT"].filled = report.filled
    BY <1>2, <1>3, <1>4, <1>7 DEF NoReport
  <2>2. report.filled \in Nat BY AnswerTypes, CoordinatorAssumption DEF Report
  <2>3. run'[r].leg["PREDICT"].filled = run[r].leg["PREDICT"].filled + report.filled
    BY <2>1, <2>2
  <2>4. Shares \in 0..Shares BY CoordinatorAssumption
  <2> QED BY <1>1, <1>2, <1>4, <1>5, <1>6, <1>7, <2>1, <2>3, <2>4, FillSound DEF Engaged
<1>8. CASE v # "PREDICT"
  <2>1. run'[r].leg["PREDICT"].filled = run[r].leg["PREDICT"].filled
    BY <1>3, <1>4, <1>8 DEF Venue
  <2> QED BY <1>1, <1>2, <1>4, <1>6, <1>8, <2>1, StaySound DEF Engaged
<1> QED BY <1>7, <1>8

(* Once both reports are in, the judgement of a run is about them.           *)
LEMMA JudgedLegs ==
  ASSUME TypeOK, NEW r \in Run
  PROVE  LET p == run[r].leg["PREDICT"].filled
             q == run[r].leg["POLYMARKET"].filled
             outcome == SafetyOutcome(r)
         IN /\ p \in 0..Shares /\ q \in 0..Shares
            /\ p = q => ~NeedsRescue(outcome) /\ outcome.rescueVenue = "none"
            /\ p < q => outcome.rescueVenue = "PREDICT" /\ outcome.residual = q - p
            /\ q < p => outcome.rescueVenue = "POLYMARKET" /\ outcome.residual = p - q
            /\ p # q => NeedsRescue(outcome)
            /\ p # q /\ run[r].attempt = "failed" => outcome.state = "PAUSED"
<1> DEFINE x == run[r].leg["PREDICT"]
           y == run[r].leg["POLYMARKET"]
<1>1. x \in Report(Shares) \cup {NoReport} /\ y \in Report(Shares) \cup {NoReport}
  BY DEF TypeOK, RunState, Venue
<1>2. x.filled \in 0..Shares /\ y.filled \in 0..Shares
  BY <1>1, CoordinatorAssumption DEF Report, NoReport
<1>3. SafetyOutcome(r) = Judged(x, y, run[r].attempt) BY DEF SafetyOutcome, Judged
<1> QED BY <1>1, <1>2, <1>3, Judgement

LEMMA CollectSound ==
  ASSUME TypeOK, RunParts, VenueParts, NEW r \in Run, Collect(r)
  PROVE  RunParts' /\ VenueParts'
<1> DEFINE p == run[r].leg["PREDICT"].filled
           q == run[r].leg["POLYMARKET"].filled
           pc == IF ~run[r].dry /\ NeedsRescue(SafetyOutcome(r))
                 THEN "rescuing" ELSE "recording"
<1>1. /\ run[r].pc = "placing" /\ run' = [run EXCEPT ![r].pc = pc]
      /\ \A v \in Venue : run[r].leg[v] # NoReport
      /\ UNCHANGED <<accounts, position, job, working, blind>>
  BY DEF Collect
<1>2. /\ run'[r].pc = pc /\ run'[r].dry = run[r].dry
      /\ run'[r].account = run[r].account /\ run'[r].leg = run[r].leg
      /\ \A s \in Run \ {r} : run'[s] = run[s]
  BY <1>1 DEF TypeOK, RunState
<1>3. run[r].dry => run[r].leg = DryLegs
  BY <1>1 DEF RunParts, DryIsComplete, Engaged
<1>4. run[r].dry => p = q BY <1>3 DEF DryLegs, Venue
<1>5. pc = "rescuing" => p # q /\ ~run[r].dry BY JudgedLegs
<1>6. pc = "recording" => p = q BY <1>4, JudgedLegs
<1>7. DryIsComplete' BY <1>2, <1>3, <1>5 DEF RunParts, DryIsComplete
<1>8. RescueIsDue'
  <2> SUFFICES ASSUME NEW s \in Run
               PROVE  /\ run'[s].pc \in {"rescuing", "recording"} =>
                           \A v \in Venue : run'[s].leg[v] # NoReport
                      /\ run'[s].pc = "rescuing" =>
                           run'[s].leg["PREDICT"].filled # run'[s].leg["POLYMARKET"].filled
                      /\ run'[s].pc = "recording" /\
                         run'[s].leg["PREDICT"].filled # run'[s].leg["POLYMARKET"].filled
                           => run'[s].attempt = "failed"
    BY DEF RescueIsDue
  <2>1. CASE s = r BY <1>1, <1>2, <1>5, <1>6, <2>1
  <2>2. CASE s # r
    <3>1. run'[s] = run[s] BY <1>2, <2>2
    <3> QED BY <3>1 DEF RunParts, RescueIsDue
  <2> QED BY <2>1, <2>2
<1>9. pc \in Engaged /\ run[r].pc \in Engaged BY <1>1 DEF Engaged
<1>10. VenueParts' BY <1>1, <1>2, <1>9, StaySound
<1> QED BY <1>7, <1>8, <1>10 DEF RunParts

(* The rescue order fills the short leg up, or the attempt has failed.       *)
LEMMA RescueSound ==
  ASSUME ~DelayedOrders, TypeOK, RunParts, VenueParts, NEW r \in Run, Rescue(r)
  PROVE  RunParts' /\ VenueParts'
<1> DEFINE p == run[r].leg["PREDICT"].filled
           q == run[r].leg["POLYMARKET"].filled
           v == SafetyOutcome(r).rescueVenue
           n == SafetyOutcome(r).residual
<1>1. PICK report \in Answers(n) :
        /\ run' = [run EXCEPT ![r].pc = "recording",
                              ![r].leg[v] = CombineResults(@, report),
                              ![r].attempt = IF report.filled >= n
                                             THEN "succeeded" ELSE "failed"]
        /\ IF v = "PREDICT" THEN Executed(run[r].account, report)
           ELSE UNCHANGED <<position, working>>
  BY DEF Rescue
<1>2. /\ run[r].pc = "rescuing" /\ run[r] \in RunState
      /\ UNCHANGED <<accounts, job, blind>>
  BY DEF Rescue, TypeOK
<1>3. run[r].leg \in [Venue -> Report(Shares) \cup {NoReport}] BY <1>2 DEF RunState
<1>4. /\ p # q /\ ~run[r].dry
      /\ \A u \in Venue : run[r].leg[u] # NoReport
  BY <1>2 DEF RunParts, RescueIsDue, DryIsComplete, Engaged
<1>5. /\ p \in 0..Shares /\ q \in 0..Shares
      /\ p < q => v = "PREDICT" /\ n = q - p
      /\ q < p => v = "POLYMARKET" /\ n = p - q
  BY JudgedLegs
<1>6. v \in Venue /\ n \in 0..Shares
  BY <1>4, <1>5, CoordinatorAssumption DEF Venue
<1>7. report.filled \in 0..n
  BY <1>6, CoordinatorAssumption DEF Answers
<1>8. /\ run'[r].pc = "recording" /\ run'[r].dry = run[r].dry
      /\ run'[r].account = run[r].account
      /\ run'[r].leg = [run[r].leg EXCEPT ![v] = CombineResults(@, report)]
      /\ run'[r].attempt = IF report.filled >= n THEN "succeeded" ELSE "failed"
      /\ \A s \in Run \ {r} : run'[s] = run[s]
  BY <1>1, <1>2 DEF TypeOK, RunState
<1>9. /\ run'[r].leg[v].filled = run[r].leg[v].filled + report.filled
      /\ \A u \in Venue \ {v} : run'[r].leg[u] = run[r].leg[u]
  BY <1>3, <1>6, <1>8 DEF CombineResults
<1>10. \A u \in Venue : run'[r].leg[u] # NoReport
  <2>1. CombineResults(run[r].leg[v], report) \in Report(Shares) BY <1>6, RescueType
  <2>2. run'[r].leg[v] = CombineResults(run[r].leg[v], report) BY <1>3, <1>6, <1>8
  <2> QED BY <1>4, <1>9, <2>1, <2>2 DEF Report, OrderStatus, NoReport
<1>11. run'[r].leg["PREDICT"].filled # run'[r].leg["POLYMARKET"].filled
         => run'[r].attempt = "failed"
  <2> SUFFICES ASSUME run'[r].attempt # "failed"
               PROVE  run'[r].leg["PREDICT"].filled = run'[r].leg["POLYMARKET"].filled
    OBVIOUS
  <2>1. report.filled = n
    <3>1. report.filled >= n BY <1>8
    <3> QED BY <1>6, <1>7, <3>1
  <2>2. CASE p < q
    <3>1. v = "PREDICT" /\ n = q - p BY <1>5, <2>2
    <3>2. /\ run'[r].leg["PREDICT"].filled = p + (q - p)
          /\ run'[r].leg["POLYMARKET"].filled = q
      BY <1>9, <2>1, <3>1 DEF Venue
    <3> QED BY <1>5, <3>2
  <2>3. CASE q < p
    <3>1. v = "POLYMARKET" /\ n = p - q BY <1>5, <2>3
    <3>2. /\ run'[r].leg["POLYMARKET"].filled = q + (p - q)
          /\ run'[r].leg["PREDICT"].filled = p
      BY <1>9, <2>1, <3>1 DEF Venue
    <3> QED BY <1>5, <3>2
  <2> QED BY <1>4, <1>5, <2>2, <2>3
<1>12. RunParts'
  <2>1. DryIsComplete' BY <1>4, <1>8 DEF RunParts, DryIsComplete
  <2>2. RescueIsDue'
    <3> SUFFICES ASSUME NEW s \in Run
                 PROVE  /\ run'[s].pc \in {"rescuing", "recording"} =>
                             \A u \in Venue : run'[s].leg[u] # NoReport
                        /\ run'[s].pc = "rescuing" =>
                             run'[s].leg["PREDICT"].filled # run'[s].leg["POLYMARKET"].filled
                        /\ run'[s].pc = "recording" /\
                           run'[s].leg["PREDICT"].filled # run'[s].leg["POLYMARKET"].filled
                             => run'[s].attempt = "failed"
      BY DEF RescueIsDue
    <3>1. CASE s = r BY <1>8, <1>10, <1>11, <3>1
    <3>2. CASE s # r
      <4>1. run'[s] = run[s] BY <1>8, <3>2
      <4> QED BY <4>1 DEF RunParts, RescueIsDue
    <3> QED BY <3>1, <3>2
  <2> QED BY <2>1, <2>2 DEF RunParts
<1>13. CASE v = "PREDICT"
  <2>1. run'[r].leg["PREDICT"].filled = run[r].leg["PREDICT"].filled + report.filled
    BY <1>9, <1>13
  <2>2. Executed(run[r].account, report) BY <1>1, <1>13
  <2>3. run[r].leg["PREDICT"].filled \in Nat BY <1>5
  <2>4. run[r].pc \in Engaged /\ run'[r].pc \in Engaged BY <1>2, <1>8 DEF Engaged
  <2>5. VenueParts'
    BY <1>2, <1>4, <1>6, <1>8, <2>1, <2>2, <2>3, <2>4, FillSound
  <2> QED BY <1>12, <2>5
<1>14. CASE v # "PREDICT"
  <2>1. run'[r].leg["PREDICT"].filled = run[r].leg["PREDICT"].filled
    BY <1>9, <1>14 DEF Venue
  <2> QED BY <1>1, <1>2, <1>8, <1>12, <1>14, <2>1, StaySound DEF Engaged
<1> QED BY <1>13, <1>14

(* A run whose order call rejects leaves its account as it is, not READY.    *)
LEMMA OrderRejectsSound ==
  ASSUME TypeOK, RunParts, VenueParts, NEW r \in Run, OrderRejects(r)
  PROVE  RunParts' /\ VenueParts'
<1> DEFINE a == run[r].account
<1>1. /\ run[r].pc \in Engaged /\ UNCHANGED <<accounts, position, job, blind>>
      /\ Goto(r, "threw")
      /\ Abandoned(a) \/ UNCHANGED working
  BY DEF OrderRejects, Engaged
<1>2. Idles(r) BY <1>1, GotoIdles DEF Resting
<1>3. /\ a \in Account
      /\ a \notin blind =>
           /\ accounts[a].status # "READY"
           /\ position[a] \in {"flat", "open"}
           /\ accounts[a].held # "none" => position[a] = "open"
           /\ \A q \in Run : On(q, a) => q = r
           /\ ~(job.step # "idle" /\ job.account = a)
  BY <1>1, EngagedFacts
<1>4. \A b \in Account \ {a} : working'[b] = working[b]
  BY <1>1 DEF Abandoned, TypeOK
<1>5. /\ ~On(r, a)'
      /\ \A q \in Run : \A b \in Account : On(q, b)' => On(q, b) /\ run'[q] = run[q]
  BY <1>2 DEF On, Idles
<1>6. RunParts' BY <1>2, IdlesRunParts
<1>7. PlainRecords' BY <1>1 DEF VenueParts, PlainRecords
<1>8. EngagedAccount' BY <1>1, <1>3, <1>4, <1>5 DEF VenueParts, EngagedAccount
<1>9. ReportIsTrue' BY <1>1, <1>5 DEF VenueParts, ReportIsTrue
<1>10. RedeemsAlone' BY <1>1, <1>3, <1>4, <1>5 DEF VenueParts, RedeemsAlone
<1>11. WorkingOrder' BY <1>1, <1>3, <1>4 DEF VenueParts, WorkingOrder
<1>12. OneRunPerAccount' BY <1>1, <1>5 DEF VenueParts, OneRunPerAccount
<1>13. ReadyIsFlat' BY <1>1, <1>3, <1>4 DEF VenueParts, ReadyIsFlat, IsReady
<1> QED BY <1>6, <1>7, <1>8, <1>9, <1>10, <1>11, <1>12, <1>13 DEF VenueParts

(* finishPredictAccount (coordinator.ts:374): a filled account goes on       *)
(* record, any other is flat and free again.                                 *)
LEMMA FinishSound ==
  ASSUME TypeOK, RunParts, VenueParts, NEW r \in Run, Finish(r)
  PROVE  RunParts' /\ VenueParts'
<1> DEFINE a == run[r].account
           acc == accounts[a]
           new == Finished(r, acc)
<1>1. /\ run[r].pc \in Engaged
      /\ accounts' = [accounts EXCEPT ![a] = new]
      /\ UNCHANGED <<position, job, working, blind>>
  BY DEF Finish, Engaged
<1>2. Idles(r) BY GotoIdles DEF Finish, Resting
<1>3. /\ a \in Account
      /\ a \notin blind =>
           /\ ~working[a] /\ position[a] \in {"flat", "open"}
           /\ position[a] = "flat" <=> run[r].dry \/ run[r].leg["PREDICT"].filled = 0
           /\ \A q \in Run : On(q, a) => q = r
           /\ ~(job.step # "idle" /\ job.account = a)
  BY <1>1, EngagedFacts
<1>4. acc \in AccountState /\ position[a] \in Position BY <1>3 DEF TypeOK
<1>5. /\ ~new.orders /\ new.cooldown = acc.cooldown
      /\ \/ /\ ~run[r].dry /\ run[r].leg["PREDICT"].filled > 0
            /\ new.held # "none" /\ new.status # "READY"
         \/ /\ ~(~run[r].dry /\ run[r].leg["PREDICT"].filled > 0)
            /\ new.held = "none"
  BY <1>4, MethodEffects DEF Finished
<1>6. run[r].leg["PREDICT"].filled \in Nat
  BY CoordinatorAssumption DEF TypeOK, RunState, Venue, Report, NoReport
<1>7. /\ accounts'[a] = new
      /\ \A b \in Account \ {a} : accounts'[b] = accounts[b]
  BY <1>1, <1>3 DEF TypeOK
<1>8. a \notin blind =>
        /\ new.held # "none" => (position[a] = "open" /\ new.status # "READY")
        /\ new.held = "none" => position[a] = "flat"
  BY <1>3, <1>5, <1>6
<1>9. /\ ~On(r, a)'
      /\ \A q \in Run : \A b \in Account :
           On(q, b)' => /\ On(q, b) /\ run'[q] = run[q]
                        /\ b \notin blind => b # a
  BY <1>2, <1>3 DEF On, Idles
<1>10. RunParts' BY <1>2, IdlesRunParts
<1>11. PlainRecords' BY <1>5, <1>7 DEF VenueParts, PlainRecords
<1>12. EngagedAccount' BY <1>1, <1>7, <1>9 DEF VenueParts, EngagedAccount
<1>13. ReportIsTrue' BY <1>1, <1>9 DEF VenueParts, ReportIsTrue
<1>14. RedeemsAlone' BY <1>1, <1>3, <1>7, <1>9 DEF VenueParts, RedeemsAlone
<1>15. WorkingOrder' BY <1>1, <1>3, <1>7 DEF VenueParts, WorkingOrder
<1>16. OneRunPerAccount' BY <1>1, <1>9 DEF VenueParts, OneRunPerAccount
<1>17. ReadyIsFlat' BY <1>1, <1>3, <1>7, <1>8 DEF VenueParts, ReadyIsFlat, IsReady
<1> QED BY <1>10, <1>11, <1>12, <1>13, <1>14, <1>15, <1>16, <1>17 DEF VenueParts

LEMMA RunOnceSound ==
  ASSUME ~DelayedOrders, TypeOK, RunParts, VenueParts, NEW r \in Run, RunOnce(r)
  PROVE  RunParts' /\ VenueParts'
<1>1. TypeOK' BY RunOnceType
<1>2. ASSUME Begin(r) \/ PassOver(r) \/ Throw(r) \/ End(r) PROVE RunParts' /\ VenueParts'
  <2>1. Idles(r) BY <1>2, GotoIdles DEF Begin, PassOver, Throw, End, Resting
  <2>2. UNCHANGED <<accounts, position, job, working, blind>>
    BY <1>2 DEF Begin, PassOver, Throw, End
  <2> QED BY <2>1, <2>2, IdlesRunParts, IdlesVenueParts
<1>3. CASE Place(r) BY <1>1, <1>3, PlaceSound
<1>4. CASE RefusePlan(r) BY <1>4, RefusePlanSound
<1>5. ASSUME NEW v \in Venue, Answer(r, v) PROVE RunParts' /\ VenueParts'
  BY <1>5, AnswerSound
<1>6. CASE OrderRejects(r) BY <1>6, OrderRejectsSound
<1>7. CASE Collect(r) BY <1>7, CollectSound
<1>8. CASE Rescue(r) BY <1>8, RescueSound
<1>9. CASE Finish(r) BY <1>9, FinishSound
<1> QED BY <1>2, <1>3, <1>4, <1>5, <1>6, <1>7, <1>8, <1>9 DEF RunOnce

(* The jobs and the market leave an account in a hedge alone, and release    *)
(* only a flat one.                                                          *)
LEMMA SettlementSound ==
  ASSUME TypeOK, RunParts, VenueParts, Settlement
  PROVE  RunParts' /\ VenueParts'
<1> USE DEF VenueParts
<1>1. UNCHANGED <<run, working, blind>> BY DEF Settlement
<1>2. RunParts' BY <1>1 DEF RunParts, DryIsComplete, RescueIsDue
<1> SUFFICES VenueParts' BY <1>2
<1>3. \A q \in Run : \A b \in Account : On(q, b)' <=> On(q, b) BY <1>1 DEF On
<1>4. OneRunPerAccount' BY <1>1, <1>3 DEF OneRunPerAccount
<1>5. ASSUME NEW a \in Account, RedeemBegin(a) PROVE VenueParts'
  <2>1. accounts[a] \in AccountState BY DEF TypeOK
  <2>2. /\ accounts'[a].held # "none" /\ accounts[a].held # "none"
        /\ accounts'[a].status # "READY"
        /\ ~accounts'[a].orders /\ ~accounts'[a].cooldown
        /\ \A b \in Account \ {a} : accounts'[b] = accounts[b]
    BY <1>5, <2>1 DEF RedeemBegin, MarkedRedeeming, PlainRecords, AccountState, TypeOK
  <2>3. UNCHANGED position /\ position[a] = "resolved"
        /\ job'.account = a /\ job'.step = "redeeming"
    BY <1>5 DEF RedeemBegin
  <2>4. a \notin blind => ~working[a] /\ \A q \in Run : ~On(q, a)
    BY <2>3 DEF EngagedAccount, WorkingOrder
  <2>5. PlainRecords' BY <2>2 DEF PlainRecords
  <2>6. EngagedAccount' BY <1>1, <1>3, <2>2, <2>3, <2>4 DEF EngagedAccount
  <2>7. ReportIsTrue' BY <1>1, <1>3, <2>3 DEF ReportIsTrue
  <2>8. RedeemsAlone' BY <1>1, <1>3, <2>2, <2>3, <2>4 DEF RedeemsAlone
  <2>9. WorkingOrder' BY <1>1, <2>2, <2>3, <2>4 DEF WorkingOrder
  <2>10. ReadyIsFlat' BY <1>1, <2>2, <2>3 DEF ReadyIsFlat, IsReady
  <2> QED BY <1>4, <2>5, <2>6, <2>7, <2>8, <2>9, <2>10
<1>6. ASSUME NEW a \in Account, accounts' = [accounts EXCEPT ![a] = Released(@)],
             job' = Idle, UNCHANGED position,
             a \notin blind => /\ position[a] = "flat" /\ ~working[a]
                              /\ \A q \in Run : ~On(q, a)
      PROVE  VenueParts'
  <2>1. accounts[a] \in AccountState BY DEF TypeOK
  <2>2. /\ accounts'[a].held = "none"
        /\ ~accounts'[a].orders /\ ~accounts'[a].cooldown
        /\ \A b \in Account \ {a} : accounts'[b] = accounts[b]
    <3>1. accounts'[a] = Released(accounts[a]) BY <1>6 DEF TypeOK
    <3>2. ~accounts[a].cooldown BY DEF PlainRecords
    <3>3. \A b \in Account \ {a} : accounts'[b] = accounts[b] BY <1>6 DEF TypeOK
    <3> QED BY <2>1, <3>1, <3>2, <3>3, MethodEffects DEF Position
  <2>3. PlainRecords' BY <2>2 DEF PlainRecords
  <2>4. EngagedAccount' BY <1>1, <1>3, <1>6, <2>2 DEF EngagedAccount
  <2>5. ReportIsTrue' BY <1>1, <1>3, <1>6 DEF ReportIsTrue
  <2>6. RedeemsAlone' BY <1>6 DEF RedeemsAlone, Idle
  <2>7. WorkingOrder' BY <1>1, <1>6, <2>2 DEF WorkingOrder
  <2>8. ReadyIsFlat' BY <1>1, <1>6, <2>2 DEF ReadyIsFlat, IsReady
  <2> QED BY <1>4, <2>3, <2>4, <2>5, <2>6, <2>7, <2>8
<1>7. ASSUME NEW a \in Account, ReleaseFlat(a) PROVE VenueParts'
  <2>1. a \notin blind => ~working[a] /\ \A q \in Run : ~On(q, a)
    BY <1>7 DEF ReleaseFlat, EngagedAccount, WorkingOrder
  <2> QED BY <1>6, <1>7, <2>1 DEF ReleaseFlat
<1>8. CASE RedeemRelease
  <2>1. job.account \in Account BY DEF TypeOK, Job
  <2>2. job.account \notin blind => /\ position[job.account] = "flat" /\ ~working[job.account]
                                  /\ \A q \in Run : ~On(q, job.account)
    BY <1>8, <2>1 DEF RedeemRelease, RedeemsAlone
  <2> QED BY <1>6, <1>8, <2>1, <2>2 DEF RedeemRelease
<1>9. CASE RedeemExecutes
  <2>1. /\ job.account \in Account /\ job.step = "redeeming"
        /\ job'.account = job.account /\ job'.step = "redeemed"
        /\ UNCHANGED accounts
        /\ position'[job.account] = "flat"
        /\ \A b \in Account \ {job.account} : position'[b] = position[b]
    BY <1>9 DEF RedeemExecutes, TypeOK, Job
  <2>2. job.account \notin blind => /\ ~working[job.account]
                                  /\ accounts[job.account].held # "none"
                                  /\ \A q \in Run : ~On(q, job.account)
    BY <2>1 DEF RedeemsAlone
  <2>3. PlainRecords' BY <2>1 DEF PlainRecords
  <2>4. EngagedAccount' BY <1>1, <1>3, <2>1, <2>2 DEF EngagedAccount
  <2>5. ReportIsTrue' BY <1>1, <1>3, <2>1, <2>2 DEF ReportIsTrue
  <2>6. RedeemsAlone' BY <1>1, <1>3, <2>1, <2>2 DEF RedeemsAlone
  <2>7. WorkingOrder' BY <1>1, <2>1, <2>2 DEF WorkingOrder
  <2>8. ReadyIsFlat' BY <1>1, <2>1, <2>2 DEF ReadyIsFlat, IsReady
  <2> QED BY <1>4, <2>3, <2>4, <2>5, <2>6, <2>7, <2>8
<1>10. CASE RedeemThrows
  <2>1. UNCHANGED <<accounts, position>> /\ job'.step = "idle"
    BY <1>10 DEF RedeemThrows, Idle
  <2> QED BY <1>1, <1>3, <1>4, <2>1
          DEF PlainRecords, EngagedAccount, ReportIsTrue, RedeemsAlone, WorkingOrder,
              ReadyIsFlat, IsReady
<1>11. CASE AdvanceHeldStateByTime
  <2>1. UNCHANGED <<position, job>> BY <1>11 DEF AdvanceHeldStateByTime
  <2>2. \A b \in Account :
          /\ accounts'[b].held = accounts[b].held
          /\ ~accounts'[b].orders /\ ~accounts'[b].cooldown
          /\ accounts[b].status # "READY" => accounts'[b].status # "READY"
          /\ accounts[b].held = "none" => accounts'[b] = accounts[b]
    <3> TAKE b \in Account
    <3>1. accounts[b] \in AccountState BY DEF TypeOK
    <3>2. accounts'[b] \in {accounts[b], MarkedAwaitingResolution(accounts[b])}
      BY <1>11 DEF AdvanceHeldStateByTime
    <3> QED BY <3>1, <3>2, MethodEffects DEF PlainRecords, Position
  <2>3. PlainRecords' BY <2>2 DEF PlainRecords
  <2>4. EngagedAccount' BY <1>1, <1>3, <2>1, <2>2 DEF EngagedAccount
  <2>5. ReportIsTrue' BY <1>1, <1>3, <2>1 DEF ReportIsTrue
  <2>6. RedeemsAlone' BY <1>1, <1>3, <2>1, <2>2 DEF RedeemsAlone
  <2>7. WorkingOrder' BY <1>1, <2>1, <2>2 DEF WorkingOrder
  <2>8. ReadyIsFlat' BY <1>1, <2>1, <2>2 DEF ReadyIsFlat, IsReady
  <2> QED BY <1>4, <2>3, <2>4, <2>5, <2>6, <2>7, <2>8
<1>12. ASSUME NEW a \in Account, ~working[a], \A q \in Run : ~On(q, a), MarketMoves(a)
       PROVE  VenueParts'
  <2>1. /\ UNCHANGED <<accounts, job>>
        /\ position[a] # "flat"
        /\ \A b \in Account \ {a} : position'[b] = position[b]
    BY <1>12 DEF MarketMoves, TypeOK
  <2>2. PlainRecords' BY <2>1 DEF PlainRecords
  <2>3. EngagedAccount' BY <1>1, <1>3, <1>12, <2>1 DEF EngagedAccount
  <2>4. ReportIsTrue' BY <1>1, <1>3, <1>12, <2>1 DEF ReportIsTrue
  <2>5. RedeemsAlone' BY <1>1, <1>3, <2>1 DEF RedeemsAlone
  <2>6. WorkingOrder' BY <1>1, <1>12, <2>1 DEF WorkingOrder
  <2>7. ReadyIsFlat' BY <1>1, <2>1 DEF ReadyIsFlat, IsReady
  <2> QED BY <1>4, <2>2, <2>3, <2>4, <2>5, <2>6, <2>7
<1> QED BY <1>5, <1>7, <1>8, <1>9, <1>10, <1>11, <1>12 DEF Settlement, RedeemSettled

(* auditPositionsJob (audit-positions.ts:16) only ever puts a position on    *)
(* record; where the venue no longer shows one the account counts as blind.  *)
LEMMA AuditSound ==
  ASSUME TypeOK, RunParts, VenueParts, Audit
  PROVE  RunParts' /\ VenueParts'
<1> USE DEF VenueParts
<1>1. UNCHANGED <<run, working, position, job>> BY DEF Audit, AuditMarks, AuditAnswers
<1>2. RunParts' BY <1>1 DEF RunParts, DryIsComplete, RescueIsDue
<1> SUFFICES VenueParts' BY <1>2
<1>3. \A q \in Run : \A b \in Account : On(q, b)' <=> On(q, b) BY <1>1 DEF On
<1>4. ASSUME NEW a \in Account, AuditAnswers(a) PROVE VenueParts'
  <2>1. UNCHANGED <<accounts, blind>> BY <1>4 DEF AuditAnswers
  <2> QED BY <1>1, <1>3, <2>1
          DEF PlainRecords, EngagedAccount, ReportIsTrue, RedeemsAlone, WorkingOrder,
              OneRunPerAccount, ReadyIsFlat, IsReady
<1>5. CASE AuditMarks
  <2> DEFINE a == audit.account
             found == AtHand(a, audit.found)
  <2>1. a \in Account /\ found \in Position BY DEF TypeOK, AtHand, Position
  <2>2. /\ accounts'[a] = HeldFromPosition(accounts[a], found)
        /\ \A b \in Account \ {a} : accounts'[b] = accounts[b]
    BY <1>5, <2>1 DEF AuditMarks, TypeOK
  <2>3. blind \subseteq blind' /\ (a \notin blind' => position[a] # "flat")
    BY <1>5 DEF AuditMarks
  <2>4. /\ accounts'[a].held # "none" /\ accounts'[a].status # "READY"
        /\ ~accounts'[a].orders /\ ~accounts'[a].cooldown
    <3>1. accounts[a] \in AccountState /\ ~accounts[a].cooldown
      BY <2>1 DEF TypeOK, PlainRecords
    <3> QED BY <2>1, <2>2, <3>1, MethodEffects
  <2>5. PlainRecords' BY <2>2, <2>4 DEF PlainRecords
  <2>6. EngagedAccount' BY <1>1, <1>3, <2>2, <2>3, <2>4 DEF EngagedAccount
  <2>7. ReportIsTrue' BY <1>1, <1>3, <2>3 DEF ReportIsTrue
  <2>8. RedeemsAlone' BY <1>1, <1>3, <2>2, <2>3, <2>4 DEF RedeemsAlone
  <2>9. WorkingOrder' BY <1>1, <2>2, <2>3, <2>4 DEF WorkingOrder
  <2>10. OneRunPerAccount' BY <1>3, <2>3 DEF OneRunPerAccount
  <2>11. ReadyIsFlat' BY <1>1, <2>2, <2>3, <2>4 DEF ReadyIsFlat, IsReady
  <2> QED BY <2>5, <2>6, <2>7, <2>8, <2>9, <2>10, <2>11
<1> QED BY <1>4, <1>5 DEF Audit

(* An order that outlived its run ends on an account no run works with.      *)
LEMMA OrderEndsSound ==
  ASSUME TypeOK, RunParts, VenueParts, NEW a \in Account, OrderEnds(a)
  PROVE  RunParts' /\ VenueParts'
<1> USE DEF VenueParts
<1>1. /\ UNCHANGED <<run, accounts, job, blind>> /\ working[a] /\ ~working'[a]
      /\ position'[a] \in {position[a], "open"}
      /\ \A b \in Account \ {a} : working'[b] = working[b] /\ position'[b] = position[b]
  BY DEF OrderEnds, TypeOK
<1>2. RunParts' BY <1>1 DEF RunParts, DryIsComplete, RescueIsDue
<1> SUFFICES VenueParts' BY <1>2
<1>3. \A q \in Run : \A b \in Account : On(q, b)' <=> On(q, b) BY <1>1 DEF On
<1>4. a \notin blind => /\ \A q \in Run : ~On(q, a)
                       /\ ~IsReady(accounts[a])
                       /\ ~(job.step # "idle" /\ job.account = a)
  BY <1>1 DEF EngagedAccount, ReadyIsFlat, RedeemsAlone
<1>5. PlainRecords' BY <1>1 DEF PlainRecords
<1>6. EngagedAccount' BY <1>1, <1>3, <1>4 DEF EngagedAccount
<1>7. ReportIsTrue' BY <1>1, <1>3, <1>4 DEF ReportIsTrue
<1>8. RedeemsAlone' BY <1>1, <1>3, <1>4 DEF RedeemsAlone
<1>9. WorkingOrder' BY <1>1 DEF WorkingOrder
<1>10. OneRunPerAccount' BY <1>1, <1>3 DEF OneRunPerAccount
<1>11. ReadyIsFlat' BY <1>1, <1>4 DEF ReadyIsFlat, IsReady
<1> QED BY <1>5, <1>6, <1>7, <1>8, <1>9, <1>10, <1>11

(* A restart forgets every run; what the venue still has is blind.           *)
LEMMA RestartSound ==
  ASSUME TypeOK, Restart
  PROVE  RunParts' /\ VenueParts'
<1>1. \A r \in Run : run'[r].pc = "threw" /\ run'[r].leg = Unanswered
  BY DEF Restart, NoRun
<1>2. \A r \in Run : \A a \in Account : ~On(r, a)'
  BY <1>1 DEF On, Engaged
<1>3. /\ \A a \in Account : accounts'[a] = Loaded(FALSE)
      /\ job'.step = "idle" /\ UNCHANGED position
      /\ \A a \in Account \ blind' : position[a] = "flat" /\ ~working'[a]
  BY DEF Restart, Idle
<1>4. RunParts' BY <1>1 DEF RunParts, DryIsComplete, RescueIsDue, Engaged
<1>5. PlainRecords' BY <1>3 DEF PlainRecords, Loaded
<1>6. EngagedAccount' /\ ReportIsTrue' /\ OneRunPerAccount'
  BY <1>2 DEF EngagedAccount, ReportIsTrue, OneRunPerAccount
<1>7. RedeemsAlone' BY <1>3 DEF RedeemsAlone
<1>8. WorkingOrder' BY <1>3 DEF WorkingOrder
<1>9. ReadyIsFlat' BY <1>3 DEF ReadyIsFlat
<1> QED BY <1>4, <1>5, <1>6, <1>7, <1>8, <1>9 DEF VenueParts

LEMMA InitSound == Init => SoundEngagement
<1> SUFFICES ASSUME Init PROVE SoundEngagement OBVIOUS
<1>1. TypeOK BY InitType
<1>2. \A r \in Run : run[r].pc = "done" BY DEF Init, NoRun
<1>3. \A r \in Run : \A a \in Account : ~On(r, a) BY <1>2 DEF On, Engaged
<1>4. \A a \in Account :
        /\ position[a] \in {"flat", "open"} /\ ~working[a]
        /\ ~accounts[a].orders /\ ~accounts[a].cooldown
        /\ position[a] # "flat" => accounts[a].status # "READY"
  <2> SUFFICES ASSUME NEW a \in Account
               PROVE  /\ position[a] \in {"flat", "open"} /\ ~working[a]
                      /\ ~accounts[a].orders /\ ~accounts[a].cooldown
                      /\ position[a] # "flat" => accounts[a].status # "READY"
    OBVIOUS
  <2>1. position[a] \in {"flat", "open"} /\ ~working[a] BY DEF Init
  <2>2. Loaded(FALSE) \in AccountState /\ ~Loaded(FALSE).orders /\ ~Loaded(FALSE).cooldown
    BY DEF Loaded, AccountState, Status
  <2>3. accounts[a] = IF position[a] = "flat" THEN Loaded(FALSE)
                      ELSE HeldFromPosition(Loaded(FALSE), position[a])
    BY DEF Init
  <2>4. CASE position[a] = "flat" BY <2>1, <2>2, <2>3, <2>4
  <2>5. CASE position[a] = "open"
    <3>1. accounts[a] = HeldFromPosition(Loaded(FALSE), "open") BY <2>3, <2>5
    <3>2. "open" \in Position BY DEF Position
    <3>3. LET new == HeldFromPosition(Loaded(FALSE), "open")
          IN new.status # "READY" /\ ~new.orders /\ new.cooldown = Loaded(FALSE).cooldown
      BY <2>2, <3>2, MethodEffects
    <3> QED BY <2>1, <2>2, <3>1, <3>3
  <2> QED BY <2>1, <2>4, <2>5
<1>5. job.step = "idle" BY DEF Init, Idle
<1> QED BY <1>1, <1>2, <1>3, <1>4, <1>5
        DEF SoundEngagement, PlainRecords, EngagedAccount, ReportIsTrue, DryIsComplete,
            RescueIsDue, RedeemsAlone, WorkingOrder, OneRunPerAccount, ReadyIsFlat,
            Engaged, IsReady

LEMMA NextSound ==
  ASSUME ~DelayedOrders, SoundEngagement, [Next]_vars
  PROVE  SoundEngagement'
<1>1. TypeOK /\ RunParts /\ VenueParts BY DEF SoundEngagement, RunParts, VenueParts
<1>2. TypeOK' BY <1>1, NextType
<1>3. RunParts' /\ VenueParts'
  <2>1. ASSUME NEW r \in Run, RunOnce(r) PROVE RunParts' /\ VenueParts'
    BY <1>1, <2>1, RunOnceSound
  <2>2. ASSUME NEW a \in Account, OrderEnds(a) PROVE RunParts' /\ VenueParts'
    BY <1>1, <2>2, OrderEndsSound
  <2>3. CASE Audit BY <1>1, <2>3, AuditSound
  <2>4. CASE Settlement BY <1>1, <2>4, SettlementSound
  <2>5. CASE Restart BY <1>1, <2>5, RestartSound
  <2>6. CASE UNCHANGED vars
    <3>1. UNCHANGED <<accounts, position, job, run, working, blind>> BY <2>6 DEF vars
    <3>2. \A q \in Run : \A b \in Account : On(q, b)' <=> On(q, b) BY <3>1 DEF On
    <3>3. RunParts' BY <1>1, <3>1 DEF RunParts, DryIsComplete, RescueIsDue
    <3>4. VenueParts'
      BY <1>1, <3>1, <3>2
         DEF VenueParts, PlainRecords, EngagedAccount, ReportIsTrue, RedeemsAlone,
             WorkingOrder, OneRunPerAccount, ReadyIsFlat, IsReady
    <3> QED BY <3>3, <3>4
  <2> QED BY <2>1, <2>2, <2>3, <2>4, <2>5, <2>6 DEF Next
<1> QED BY <1>2, <1>3 DEF SoundEngagement, RunParts, VenueParts

-----------------------------------------------------------------------------
(* The theorems                                                              *)

(* Whatever the runs, jobs, restarts and rejected calls do, and in whatever  *)
(* order, the invariant that ties the records of the rotator, the runs of    *)
(* runOnce (coordinator.ts:104) and the venue together stays true.           *)
THEOREM EngagementIsSound == ~DelayedOrders /\ Spec => []SoundEngagement
<1> SUFFICES ASSUME ~DelayedOrders PROVE Spec => []SoundEngagement OBVIOUS
<1>1. SoundEngagement /\ [Next]_vars => SoundEngagement' BY NextSound
<1> QED BY <1>1, InitSound, PTL DEF Spec

(* Overlapping calls of runOnce never work with the same account, although   *)
(* nothing but the status written by reserve (rotator.ts:156) keeps the      *)
(* second one out.                                                           *)
THEOREM RunsExclude == ~DelayedOrders /\ Spec => []OneRunPerAccount
<1>1. SoundEngagement => OneRunPerAccount BY DEF SoundEngagement
<1> QED BY <1>1, EngagementIsSound, PTL

(* An account the coordinator can pick (rotator.ts:111) has no position and  *)
(* no order at work on the venue.                                            *)
THEOREM ReadyMeansFlat == ~DelayedOrders /\ Spec => []ReadyIsFlat
<1>1. SoundEngagement => ReadyIsFlat BY DEF SoundEngagement
<1> QED BY <1>1, EngagementIsSound, PTL

(* A run whose legs differ in the end stops trading: runOnce never goes on   *)
(* to the next match with a residual (coordinator.ts:302).                   *)
THEOREM ResidualsAreLoud == ~DelayedOrders /\ Spec => NoSilentResidual
<1> DEFINE Loud == \A r \in Run :
                     /\ run[r].pc = "recording"
                     /\ run[r].leg["PREDICT"].filled # run[r].leg["POLYMARKET"].filled
                     => run'[r].pc \in {"recording", "paused", "threw"}
<1> SUFFICES ASSUME ~DelayedOrders PROVE Spec => NoSilentResidual OBVIOUS
<1>1. ASSUME SoundEngagement, [Next]_vars PROVE [Loud]_vars
  <2> SUFFICES ASSUME NEW r \in Run, run[r].pc = "recording",
                      run[r].leg["PREDICT"].filled # run[r].leg["POLYMARKET"].filled
               PROVE  run'[r].pc \in {"recording", "paused", "threw"}
    OBVIOUS
  <2>1. TypeOK /\ RescueIsDue BY <1>1 DEF SoundEngagement
  <2>2. run[r].attempt = "failed" BY <2>1 DEF RescueIsDue
  <2>3. MustPause(SafetyOutcome(r)) BY <2>1, <2>2, JudgedLegs DEF MustPause
  <2>4. CASE Finish(r) BY <2>1, <2>3, <2>4 DEF Finish, Goto, NoRun, TypeOK
  <2>5. CASE Throw(r) BY <2>1, <2>5 DEF Throw, Goto, NoRun, TypeOK
  <2>6. CASE Restart BY <2>6 DEF Restart, NoRun
  <2>7. ASSUME NEW q \in Run, q # r, RunOnce(q) PROVE run'[r] = run[r]
    BY <2>1, <2>7 DEF RunOnce, Begin, PassOver, Place, RefusePlan, Answer, OrderRejects,
                      Collect, Rescue, Finish, Throw, End, Goto, MatchEnds, TypeOK
  <2>8. ASSUME \/ \E a \in Account : OrderEnds(a)
               \/ Audit \/ Settlement \/ UNCHANGED vars
        PROVE  run' = run
    BY <2>8 DEF OrderEnds, Audit, AuditMarks, AuditAnswers, Settlement, vars
  <2>9. ASSUME RunOnce(r) PROVE Finish(r) \/ Throw(r)
    BY <2>9 DEF RunOnce, Begin, PassOver, Place, RefusePlan, Answer, OrderRejects,
                Collect, Rescue, End, Resting
  <2> QED BY <1>1, <2>4, <2>5, <2>6, <2>7, <2>8, <2>9 DEF Next
<1>2. Spec => []SoundEngagement BY EngagementIsSound
<1> QED BY <1>1, <1>2, PTL DEF Spec, NoSilentResidual

-----------------------------------------------------------------------------
(* The coordinator implements AccountLifecycle                               *)

LEMMA LifecycleInit ==
  ASSUME Init, NEW a \in Account
  PROVE  Lifecycle(a)!Init
<1>1. a \notin blind /\ position[a] \in {"flat", "open"} BY DEF Init
<1>2. Loaded(FALSE) \in AccountState BY DEF Loaded, AccountState, Status
<1>3. CASE position[a] = "flat"
  <2>1. accounts[a] = Loaded(FALSE) BY <1>3 DEF Init
  <2>2. Phase(a) = "free" BY <1>1, <2>1 DEF Phase, Loaded, IsReady
  <2> QED BY <1>3, <2>2 DEF Lifecycle!Init
<1>4. CASE position[a] = "open"
  <2>1. accounts[a] = HeldFromPosition(Loaded(FALSE), "open") BY <1>4 DEF Init
  <2>2. accounts[a].held # "none"
    <3>1. "open" \in Position BY DEF Position
    <3> QED BY <1>2, <2>1, <3>1, MethodEffects
  <2>3. Phase(a) = "held" BY <1>1, <2>2 DEF Phase
  <2> QED BY <1>4, <2>3 DEF Lifecycle!Init
<1> QED BY <1>1, <1>3, <1>4

\* A step of the life cycle of account a, or a stutter.
LifecycleStep(a) == Lifecycle(a)!Next \/ UNCHANGED Lifecycle(a)!vars

(* Which changes of a record and its position are steps of the life cycle.   *)
LEMMA StepKinds ==
  ASSUME NEW a \in Account, a \notin blind
  PROVE  /\ a \in blind' => LifecycleStep(a)
         /\ a \notin blind' =>
              /\ UNCHANGED <<accounts[a], position[a]>> => LifecycleStep(a)
              /\ /\ IsReady(accounts[a]) /\ accounts'[a].held = "none"
                 /\ UNCHANGED position[a]
                 => LifecycleStep(a)
              /\ /\ UNCHANGED accounts[a] /\ accounts[a].status # "READY"
                 /\ position'[a] # "flat"
                 => LifecycleStep(a)
              /\ /\ accounts[a].status # "READY"
                 /\ position[a] # "flat" /\ position'[a] # "flat"
                 /\ accounts'[a].held # "none"
                 => LifecycleStep(a)
              /\ /\ position[a] = "flat" /\ position'[a] = "flat"
                 /\ IsReady(accounts'[a])
                 => LifecycleStep(a)
              /\ accounts[a].held # "none" /\ accounts'[a].held # "none"
                 => LifecycleStep(a)
<1> DEFINE N == Lifecycle(a)!Next
           U == UNCHANGED Lifecycle(a)!vars
<1>1. Phase(a) = IF accounts[a].held # "none" THEN "held"
                 ELSE IF IsReady(accounts[a]) THEN "free" ELSE "let"
  BY DEF Phase
<1>2. a \in blind' => Phase(a)' = "lost"
  BY DEF Phase
<1>3. a \notin blind' =>
        Phase(a)' = IF accounts'[a].held # "none" THEN "held"
                    ELSE IF IsReady(accounts'[a]) THEN "free" ELSE "let"
  BY DEF Phase
<1>4. a \in blind' => N
  BY <1>2 DEF Lifecycle!Next, Lifecycle!Lose
<1> QED BY <1>1, <1>2, <1>3, <1>4
    DEF LifecycleStep, Lifecycle!Next, Lifecycle!vars, Lifecycle!Let, Lifecycle!Buy,
        Lifecycle!Return, Lifecycle!Hold, Lifecycle!Pay, Lifecycle!Free, IsReady

LEMMA RunOnceFollows ==
  ASSUME ~DelayedOrders, SoundEngagement, NEW r \in Run, RunOnce(r), NEW b \in Account,
         b \notin blind
  PROVE  LifecycleStep(b)
<1> DEFINE a == run[r].account
<1>1. /\ TypeOK /\ VenueParts /\ ReadyIsFlat /\ PlainRecords
      /\ accounts[b] \in AccountState
  BY DEF SoundEngagement, VenueParts, TypeOK
<1>2. UNCHANGED blind
  BY DEF RunOnce, Begin, PassOver, Place, RefusePlan, Answer, OrderRejects, Collect,
         Rescue, Finish, Throw, End
<1>3. ASSUME UNCHANGED <<accounts, position>> PROVE LifecycleStep(b)
  BY <1>2, <1>3, StepKinds
<1>4. ASSUME Begin(r) \/ PassOver(r) \/ OrderRejects(r) \/ Collect(r) \/ Throw(r) \/ End(r)
      PROVE  LifecycleStep(b)
  BY <1>3, <1>4 DEF Begin, PassOver, OrderRejects, Collect, Throw, End
<1>5. CASE Place(r)
  <2>1. PICK c \in Account :
          FirstReady(c) /\ accounts' = [accounts EXCEPT ![c] = Reserved(@)]
    BY <1>5 DEF Place
  <2>2. UNCHANGED position BY <1>5 DEF Place
  <2>3. CASE b = c
    <3>1. IsReady(accounts[b]) BY <2>1, <2>3 DEF FirstReady
    <3>2. accounts'[b] = [accounts[b] EXCEPT !.status = "COOLDOWN"]
      BY <1>1, <2>1, <2>3 DEF TypeOK, Reserved
    <3>3. accounts'[b].held = "none" BY <1>1, <3>1, <3>2 DEF IsReady, AccountState
    <3> QED BY <1>2, <2>2, <3>1, <3>3, StepKinds
  <2>4. CASE b # c
    <3>1. UNCHANGED accounts[b] BY <1>1, <2>1, <2>4 DEF TypeOK
    <3> QED BY <1>2, <2>2, <3>1, StepKinds
  <2> QED BY <2>3, <2>4
<1>6. CASE RefusePlan(r)
  <2>1. PICK c \in Account :
          FirstReady(c) /\ accounts' = [accounts EXCEPT ![c] = Released(Reserved(@))]
    BY <1>6 DEF RefusePlan
  <2>2. UNCHANGED position BY <1>6 DEF RefusePlan
  <2>3. CASE b = c
    <3>1. IsReady(accounts[b]) BY <2>1, <2>3 DEF FirstReady
    <3>2. accounts'[b].held = "none"
      BY <1>1, <2>1, <2>3 DEF TypeOK, Released, Reserved, AccountState
    <3> QED BY <1>2, <2>2, <3>1, <3>2, StepKinds
  <2>4. CASE b # c
    <3>1. UNCHANGED accounts[b] BY <1>1, <2>1, <2>4 DEF TypeOK
    <3> QED BY <1>2, <2>2, <3>1, StepKinds
  <2> QED BY <2>3, <2>4
<1>7. ASSUME run[r].pc \in Engaged, UNCHANGED accounts,
             NEW report, Executed(a, report)
      PROVE  LifecycleStep(b)
  <2>1. /\ position' = [position EXCEPT ![a] = IF report.filled > 0 THEN "open" ELSE @]
        /\ a \in Account
    BY <1>1, <1>7 DEF Executed, TypeOK, RunState
  <2>2. CASE b = a
    <3>1. accounts[b].status # "READY" BY <1>1, <1>7, <2>2, EngagedFacts
    <3>2. position'[b] # "flat" \/ UNCHANGED position[b] BY <1>1, <2>1, <2>2 DEF TypeOK
    <3> QED BY <1>2, <1>7, <3>1, <3>2, StepKinds
  <2>3. CASE b # a
    <3>1. UNCHANGED position[b] BY <1>1, <2>1, <2>3 DEF TypeOK
    <3> QED BY <1>2, <1>7, <3>1, StepKinds
  <2> QED BY <2>2, <2>3
<1>8. ASSUME NEW v \in Venue, Answer(r, v) PROVE LifecycleStep(b)
  BY <1>3, <1>7, <1>8 DEF Answer, Engaged
<1>9. CASE Rescue(r) BY <1>3, <1>7, <1>9 DEF Rescue, Engaged
<1>10. CASE Finish(r)
  <2> DEFINE acc == accounts[a]
             new == Finished(r, acc)
             filled == run[r].leg["PREDICT"].filled
  <2>1. /\ run[r].pc \in Engaged /\ UNCHANGED position
        /\ accounts' = [accounts EXCEPT ![a] = new]
    BY <1>10 DEF Finish, Engaged
  <2>2. CASE b = a
    <3>1. /\ acc.status # "READY"
          /\ position[b] = "flat" <=> run[r].dry \/ filled = 0
      BY <1>1, <2>1, <2>2, EngagedFacts
    <3>2. accounts'[b] = new /\ position[b] \in Position
      BY <1>1, <2>1, <2>2 DEF TypeOK
    <3>3. filled \in Nat
      BY <1>1, CoordinatorAssumption DEF TypeOK, RunState, Venue, Report, NoReport
    <3>4. CASE ~run[r].dry /\ filled > 0
      <4>1. new = MarkedHeld(acc, "pending", position[a]) BY <3>4 DEF Finished
      <4>2. new.held # "none" BY <1>1, <2>2, <3>2, <4>1, MethodEffects
      <4>3. position[b] # "flat" BY <3>1, <3>3, <3>4
      <4> QED BY <1>2, <2>1, <2>2, <3>1, <3>2, <4>2, <4>3, StepKinds
    <3>5. CASE ~(~run[r].dry /\ filled > 0)
      <4>1. new = Released(acc) BY <3>5 DEF Finished
      <4>2. IsReady(new)
        BY <1>1, <2>2, <3>2, <4>1, MethodEffects DEF IsReady, PlainRecords
      <4>3. position[b] = "flat" BY <3>1, <3>3, <3>5
      <4> QED BY <1>2, <2>1, <3>2, <4>2, <4>3, StepKinds
    <3> QED BY <3>4, <3>5
  <2>3. CASE b # a
    <3>1. UNCHANGED accounts[b] BY <1>1, <2>1, <2>3 DEF TypeOK
    <3> QED BY <1>2, <2>1, <3>1, StepKinds
  <2> QED BY <2>2, <2>3
<1> QED BY <1>4, <1>5, <1>6, <1>8, <1>9, <1>10 DEF RunOnce

LEMMA SettlementFollows ==
  ASSUME SoundEngagement, Settlement, NEW b \in Account, b \notin blind
  PROVE  LifecycleStep(b)
<1>1. /\ TypeOK /\ PlainRecords /\ EngagedAccount /\ RedeemsAlone
      /\ accounts[b] \in AccountState /\ UNCHANGED blind
  BY DEF SoundEngagement, TypeOK, Settlement
<1>2. ASSUME NEW a \in Account, RedeemBegin(a) PROVE LifecycleStep(b)
  <2>1. CASE b = a
    <3>1. accounts'[b] = MarkedRedeeming(accounts[b]) /\ accounts[b].held # "none"
      BY <1>1, <1>2, <2>1 DEF RedeemBegin, TypeOK
    <3>2. accounts'[b].held # "none" BY <1>1, <3>1 DEF MarkedRedeeming, AccountState
    <3> QED BY <1>1, <3>1, <3>2, StepKinds
  <2>2. CASE b # a
    <3>1. UNCHANGED <<accounts[b], position[b]>> BY <1>1, <1>2, <2>2 DEF RedeemBegin, TypeOK
    <3> QED BY <1>1, <3>1, StepKinds
  <2> QED BY <2>1, <2>2
<1>3. ASSUME NEW a \in Account, accounts' = [accounts EXCEPT ![a] = Released(@)],
             UNCHANGED position, a \notin blind => position[a] = "flat"
      PROVE  LifecycleStep(b)
  <2>1. CASE b = a
    <3>1. accounts'[b] = Released(accounts[b]) BY <1>1, <1>3, <2>1 DEF TypeOK
    <3>2. IsReady(accounts'[b])
      BY <1>1, <3>1 DEF Released, IsReady, PlainRecords, AccountState
    <3> QED BY <1>1, <1>3, <2>1, <3>2, StepKinds
  <2>2. CASE b # a
    <3>1. UNCHANGED accounts[b] BY <1>1, <1>3, <2>2 DEF TypeOK
    <3> QED BY <1>1, <1>3, <3>1, StepKinds
  <2> QED BY <2>1, <2>2
<1>4. ASSUME NEW a \in Account, ReleaseFlat(a) PROVE LifecycleStep(b)
  BY <1>3, <1>4 DEF ReleaseFlat
<1>5. CASE RedeemRelease
  <2>1. job.account \in Account BY <1>1 DEF TypeOK, Job
  <2>2. job.account \notin blind => position[job.account] = "flat"
    BY <1>1, <1>5, <2>1 DEF RedeemRelease, RedeemsAlone
  <2> QED BY <1>3, <1>5, <2>1, <2>2 DEF RedeemRelease
<1>6. CASE RedeemExecutes
  <2>1. CASE b = job.account
    <3>1. accounts[b].held # "none" /\ UNCHANGED accounts[b]
      BY <1>1, <1>6, <2>1 DEF RedeemExecutes, RedeemsAlone
    <3> QED BY <1>1, <3>1, StepKinds
  <2>2. CASE b # job.account
    <3>1. UNCHANGED <<accounts[b], position[b]>>
      BY <1>1, <1>6, <2>2 DEF RedeemExecutes, TypeOK
    <3> QED BY <1>1, <3>1, StepKinds
  <2> QED BY <2>1, <2>2
<1>7. CASE RedeemThrows BY <1>1, <1>7, StepKinds DEF RedeemThrows
<1>8. CASE AdvanceHeldStateByTime
  <2>1. /\ UNCHANGED position
        /\ accounts'[b] \in {accounts[b], MarkedAwaitingResolution(accounts[b])}
    BY <1>8 DEF AdvanceHeldStateByTime
  <2>2. \/ UNCHANGED accounts[b]
        \/ accounts[b].held # "none" /\ accounts'[b].held # "none"
    BY <1>1, <2>1 DEF MarkedAwaitingResolution, AccountState
  <2> QED BY <1>1, <2>1, <2>2, StepKinds
<1>9. ASSUME NEW a \in Account, ~working[a], \A q \in Run : ~On(q, a), MarketMoves(a)
      PROVE  LifecycleStep(b)
  <2>1. UNCHANGED accounts[b] BY <1>9 DEF MarketMoves
  <2>2. CASE b = a
    <3>1. position[b] # "flat" /\ position'[b] # "flat"
      BY <1>1, <1>9, <2>2 DEF MarketMoves, TypeOK
    <3>2. accounts[b].status # "READY" \/ accounts[b].held # "none"
      BY <1>1, <3>1 DEF SoundEngagement, ReadyIsFlat, PlainRecords, IsReady
    <3> QED BY <1>1, <2>1, <3>1, <3>2, StepKinds
  <2>3. CASE b # a
    <3>1. UNCHANGED position[b] BY <1>1, <1>9, <2>3 DEF MarketMoves, TypeOK
    <3> QED BY <1>1, <2>1, <3>1, StepKinds
  <2> QED BY <2>2, <2>3
<1> QED BY <1>2, <1>4, <1>5, <1>6, <1>7, <1>8, <1>9 DEF Settlement, RedeemSettled

LEMMA NextFollows ==
  ASSUME ~DelayedOrders, SoundEngagement, Next, NEW b \in Account
  PROVE  LifecycleStep(b)
<1>1. /\ TypeOK /\ PlainRecords /\ ReadyIsFlat /\ accounts[b] \in AccountState
  BY DEF SoundEngagement, TypeOK
<1>2. CASE b \in blind
  <2>1. b \in blind'
    <3>1. ASSUME NEW r \in Run, RunOnce(r) PROVE UNCHANGED blind
      BY <3>1 DEF RunOnce, Begin, PassOver, Place, RefusePlan, Answer, OrderRejects, Collect,
                  Rescue, Finish, Throw, End
    <3>2. ASSUME \/ \E a \in Account : OrderEnds(a)
                 \/ Settlement \/ \E a \in Account : AuditAnswers(a)
          PROVE  UNCHANGED blind
      BY <3>2 DEF OrderEnds, Settlement, AuditAnswers
    <3>3. AuditMarks \/ Restart => blind \subseteq blind' BY DEF AuditMarks, Restart
    <3> QED BY <1>2, <3>1, <3>2, <3>3 DEF Next, Audit
  <2>2. Phase(b)' = "lost" BY <2>1 DEF Phase
  <2> QED BY <2>2 DEF LifecycleStep, Lifecycle!Next, Lifecycle!Lose
<1>3. CASE b \notin blind
  <2>1. ASSUME NEW r \in Run, RunOnce(r) PROVE LifecycleStep(b)
    BY <1>3, <2>1, RunOnceFollows
  <2>2. CASE Settlement BY <1>3, <2>2, SettlementFollows
  <2>3. ASSUME NEW a \in Account, OrderEnds(a) PROVE LifecycleStep(b)
    <3>1. UNCHANGED <<accounts, blind>> BY <2>3 DEF OrderEnds
    <3>2. CASE b = a
      <4>1. accounts[b].status # "READY" \/ accounts[b].held # "none"
        BY <1>1, <1>3, <2>3, <3>2 DEF OrderEnds, ReadyIsFlat, PlainRecords, IsReady
      <4>2. position'[b] # "flat" \/ UNCHANGED position[b]
        BY <1>1, <2>3, <3>2 DEF OrderEnds, TypeOK
      <4> QED BY <1>3, <3>1, <4>1, <4>2, StepKinds
    <3>3. CASE b # a
      <4>1. UNCHANGED position[b] BY <1>1, <2>3, <3>3 DEF OrderEnds, TypeOK
      <4> QED BY <1>3, <3>1, <4>1, StepKinds
    <3> QED BY <3>2, <3>3
  <2>4. ASSUME NEW a \in Account, AuditAnswers(a) PROVE LifecycleStep(b)
    BY <1>3, <2>4, StepKinds DEF AuditAnswers
  <2>5. CASE AuditMarks
    <3>1. UNCHANGED position /\ AtHand(b, audit.found) \in Position
      BY <1>1, <2>5 DEF AuditMarks, TypeOK, AtHand, Position
    <3>2. CASE b = audit.account /\ position[b] # "flat"
      <4>1. accounts'[b] = HeldFromPosition(accounts[b], AtHand(b, audit.found))
        BY <1>1, <2>5, <3>2 DEF AuditMarks, TypeOK
      <4>2. accounts'[b].held # "none" BY <1>1, <3>1, <4>1, MethodEffects
      <4>3. accounts[b].status # "READY" \/ accounts[b].held # "none"
        BY <1>1, <1>3, <3>2 DEF ReadyIsFlat, PlainRecords, IsReady
      <4> QED BY <1>3, <3>1, <3>2, <4>2, <4>3, StepKinds
    <3>3. CASE b = audit.account /\ position[b] = "flat"
      <4>1. b \in blind' BY <2>5, <3>3 DEF AuditMarks
      <4> QED BY <1>3, <4>1, StepKinds
    <3>4. CASE b # audit.account
      <4>1. UNCHANGED accounts[b] BY <1>1, <2>5, <3>4 DEF AuditMarks, TypeOK
      <4> QED BY <1>3, <3>1, <4>1, StepKinds
    <3> QED BY <3>2, <3>3, <3>4
  <2>6. CASE Restart
    <3>1. b \notin blind' => position[b] = "flat" /\ UNCHANGED position
      BY <2>6 DEF Restart
    <3>2. IsReady(accounts'[b]) BY <2>6 DEF Restart, IsReady, Loaded
    <3> QED BY <1>3, <3>1, <3>2, StepKinds
  <2> QED BY <2>1, <2>2, <2>3, <2>4, <2>5, <2>6 DEF Next, Audit
<1> QED BY <1>2, <1>3

(* Every Predict account follows AccountLifecycle: it is let to a hedge only *)
(* while it is flat, a fill puts it on record, and it is free again only     *)
(* when the venue shows nothing (coordinator.ts:374, redeem-settled.ts:18).  *)
THEOREM ImplementsLifecycle == ~DelayedOrders /\ Spec => FollowsLifecycle
<1> DEFINE Starts == \A a \in Account : Lifecycle(a)!Init
           Steps == \A a \in Account : Lifecycle(a)!Next \/ UNCHANGED Lifecycle(a)!vars
<1> SUFFICES ASSUME ~DelayedOrders PROVE Spec => FollowsLifecycle OBVIOUS
<1>1. Init => Starts BY LifecycleInit
<1>2. SoundEngagement /\ [Next]_vars => [Steps]_vars
  BY NextFollows DEF LifecycleStep
<1>3. Spec => []SoundEngagement BY EngagementIsSound
<1> QED BY <1>1, <1>2, <1>3, PTL DEF Spec, FollowsLifecycle
=============================================================================
