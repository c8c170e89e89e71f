--------------------------- MODULE HedgeCoordinator ---------------------------
(***************************************************************************)
(* Running hedges: ExecutionCoordinator.runOnce                            *)
(* (src/src/execution/coordinator.ts) on the accounts of one               *)
(* PredictAccountRotator, beside the audit job                             *)
(* (src/src/jobs/audit-positions.ts), the jobs of SettlementJobs, crashes  *)
(* of the process and a venue whose orders outlive the call that placed    *)
(* them.                                                                   *)
(*                                                                         *)
(* Several runs share the rotator: nothing in runOnce keeps a second call  *)
(* out.  What a run does between two awaits is one action; the two legs    *)
(* are placed together and answered in any order (Promise.all).  Unlike    *)
(* selectForTrade, a run neither audits the account it picks nor locks it. *)
(*                                                                         *)
(* Abstracted: markets, books, sizing and the strategy layer decide only   *)
(* whether a match is traded, and of a trade only the shares remain.  The  *)
(* venues and the scheduler are external.  Assumed of time: a market ends  *)
(* only when no run and no order is at work on the account it is held by.  *)
(***************************************************************************)
EXTENDS SettlementJobs, ExecutionSafety

CONSTANTS
  Run,            \* calls of runOnce that may overlap
  Shares,         \* shares a hedge asks for
  MaxMatches,     \* bound: market pairs one run looks at
  PauseOnUnhedgedResidual,  \* of ExecutionSafetyPolicy, which the caller may pass
  DelayedOrders   \* may a venue answer that an order is still open?

ASSUME CoordinatorAssumption ==
  /\ Shares \in Nat \ {0}
  /\ MaxMatches \in Nat
  /\ PauseOnUnhedgedResidual \in BOOLEAN
  /\ DelayedOrders \in BOOLEAN

VARIABLES
  lastIndex,  \* account used last
  run,        \* the runs
  working,    \* venue: an order of the account may still fill
  audit,      \* the answer auditPositionsJob is about to apply
  blind       \* history: accounts whose record the venue contradicts because the
              \* process restarted or the audit applied an outdated answer

vars == <<accounts, position, job, lastIndex, run, working, audit, blind>>

Resting == {"done", "paused", "threw"}
Engaged == {"placing", "rescuing", "recording"}

\* A run that is engaged has a match at hand.
RunState ==
  {s \in [pc      : Resting \cup Engaged \cup {"scanning"},
          left    : 0..MaxMatches,                    \* matches still to come
          dry     : BOOLEAN,                          \* dryRun
          account : Account,                          \* reserved, while engaged
          leg     : [Venue -> Report(Shares) \cup {NoReport}],
          attempt : {"none", "succeeded", "failed"}]  \* rescueAttempt
   : s.pc \in Engaged => s.left > 0}

Unanswered == [v \in Venue |-> NoReport]

NoRun == [pc |-> "done", left |-> 0, dry |-> FALSE, account |-> NumAccounts,
          leg |-> Unanswered, attempt |-> "none"]

NoAudit == [account |-> NumAccounts, found |-> "flat"]

\* Run r works with account a.
On(r, a) == run[r].pc \in Engaged /\ run[r].account = a

\* The records agree with the venue, as after an audit.
Init ==
  /\ position \in [Account -> {"flat", "open"}]
  /\ accounts = [a \in Account |->
                   IF position[a] = "flat" THEN Loaded(FALSE)
                   ELSE HeldFromPosition(Loaded(FALSE), position[a])]
  /\ job = Idle
  /\ lastIndex = NumAccounts
  /\ run = [r \in Run |-> NoRun]
  /\ working = [a \in Account |-> FALSE]
  /\ audit = NoAudit
  /\ blind = {}

-----------------------------------------------------------------------------
(* The venues' answers to an order for n shares *)

Answers(n) ==
  [status : {"matched"}, filled : 1..n] \cup {[status |-> "failed", filled |-> 0]}
  \cup (IF DelayedOrders THEN [status : {"open"}, filled : 0..(n - 1)] ELSE {})

\* What the answer to a Predict order says has happened on the venue.
Executed(a, report) ==
  /\ position' = [position EXCEPT ![a] = IF report.filled > 0 THEN "open" ELSE @]
  /\ working' = [working EXCEPT ![a] = @ \/ IsOpen(report)]

\* An order whose answer never arrives may still be at work.
Abandoned(a) == \E w \in BOOLEAN : working' = [working EXCEPT ![a] = @ \/ w]

\* An order at work fills or is cancelled by the venue.
OrderEnds(a) ==
  /\ working[a]
  /\ working' = [working EXCEPT ![a] = FALSE]
  /\ \E p \in {position[a], "open"} : position' = [position EXCEPT ![a] = p]
  /\ UNCHANGED <<accounts, job, lastIndex, run, audit, blind>>

-----------------------------------------------------------------------------
(* runOnce *)

Goto(r, pc) == run' = [run EXCEPT ![r] = [NoRun EXCEPT !.pc = pc]]

\* On to the next match.
MatchEnds(r) ==
  run' = [run EXCEPT ![r] = [NoRun EXCEPT !.pc = "scanning", !.dry = run[r].dry,
                                          !.left = run[r].left - 1]]

\* Discovery and scan; ensurePolymarketCanOpen may refuse.
Begin(r) ==
  /\ run[r].pc \in Resting
  /\ \/ \E dry \in BOOLEAN, n \in 0..MaxMatches :
          run' = [run EXCEPT ![r] = [NoRun EXCEPT !.pc = "scanning", !.dry = dry, !.left = n]]
     \/ Goto(r, "paused")
  /\ UNCHANGED <<accounts, position, job, lastIndex, working, audit, blind>>

\* No account is ready, or sizing or the strategy layer rejects the match.
PassOver(r) ==
  /\ run[r].pc = "scanning" /\ run[r].left > 0
  /\ MatchEnds(r)
  /\ UNCHANGED <<accounts, position, job, lastIndex, working, audit, blind>>

\* The first ready account after lastIndex: found, sized and reserved without an
\* await in between.
FirstReady(a) ==
  \E k \in 1..NumAccounts :
    /\ a = Candidate(lastIndex, k)
    /\ IsReady(accounts[a])
    /\ \A i \in 1..(k - 1) : ~IsReady(accounts[Candidate(lastIndex, i)])

DryLegs == [v \in Venue |-> [status |-> "dry_run", filled |-> Shares]]

Place(r) ==
  /\ run[r].pc = "scanning" /\ run[r].left > 0
  /\ \E a \in Account :
       /\ FirstReady(a)
       /\ accounts' = [accounts EXCEPT ![a] = Reserved(@)]
       /\ lastIndex' = a
       /\ run' = [run EXCEPT ![r].pc = "placing", ![r].account = a,
                             ![r].leg = IF run[r].dry THEN DryLegs ELSE Unanswered]
  /\ UNCHANGED <<position, job, working, audit, blind>>

\* validateConservativeOrderPlan or a missing leg refuses the plan after reserve.
RefusePlan(r) ==
  /\ run[r].pc = "scanning" /\ run[r].left > 0
  /\ \E a \in Account :
       /\ FirstReady(a)
       /\ accounts' = [accounts EXCEPT ![a] = Released(Reserved(@))]
       /\ lastIndex' = a
  /\ MatchEnds(r)
  /\ UNCHANGED <<position, job, working, audit, blind>>

Answer(r, v) ==
  /\ run[r].pc = "placing"
  /\ run[r].leg[v] = NoReport
  /\ \E report \in Answers(Shares) :
       /\ run' = [run EXCEPT ![r].leg[v] = report]
       /\ IF v = "PREDICT" THEN Executed(run[r].account, report)
          ELSE UNCHANGED <<position, working>>
  /\ UNCHANGED <<accounts, job, lastIndex, audit, blind>>

\* The rest of the policy decides nothing here: the reports count as confirmed,
\* and nobody carries out CANCEL_UNFILLED_ORDERS.
Policy == [cancelUnfilledOrders |-> TRUE, postTradeReconcileRequired |-> FALSE,
           pauseOnUnhedgedResidual |-> PauseOnUnhedgedResidual]

\* safetyOutcome: no REST or WS report, and no age of the exposure, is passed.
Confirmed(report) == ConfirmOrderFill(report, NoReport, NoReport, Shares, FALSE)

SafetyOutcome(r) ==
  ReconcileExecutionSafety(Confirmed(run[r].leg["PREDICT"]),
                           Confirmed(run[r].leg["POLYMARKET"]),
                           Policy, FALSE, run[r].attempt)

\* A Predict order of the run is unanswered.
AwaitsPredict(r) ==
  \/ run[r].pc = "placing" /\ run[r].leg["PREDICT"] = NoReport
  \/ run[r].pc = "rescuing" /\ SafetyOutcome(r).rescueVenue = "PREDICT"

\* Mutant: a run that fails gives its account back.
OrderRejectsAndReleases(r) ==
  /\ \/ run[r].pc = "placing" /\ \E v \in Venue : run[r].leg[v] = NoReport
     \/ run[r].pc = "rescuing"
  /\ IF AwaitsPredict(r) THEN Abandoned(run[r].account) ELSE UNCHANGED working
  /\ accounts' = [accounts EXCEPT ![run[r].account] = Released(@)]
  /\ Goto(r, "threw")
  /\ UNCHANGED <<position, job, lastIndex, audit, blind>>

\* A placeOrder rejects: with one of two legs Promise.all rejects, and runOnce
\* with that, whatever becomes of the other; so it does with a rescue order.
OrderRejects(r) ==
  /\ \/ run[r].pc = "placing" /\ \E v \in Venue : run[r].leg[v] = NoReport
     \/ run[r].pc = "rescuing"
  /\ IF AwaitsPredict(r) THEN Abandoned(run[r].account) ELSE UNCHANGED working
  /\ Goto(r, "threw")
  /\ UNCHANGED <<accounts, position, job, lastIndex, audit, blind>>

Collect(r) ==
  /\ run[r].pc = "placing"
  /\ \A v \in Venue : run[r].leg[v] # NoReport
  /\ run' = [run EXCEPT ![r].pc = IF ~run[r].dry /\ NeedsRescue(SafetyOutcome(r))
                                  THEN "rescuing" ELSE "recording"]
  /\ UNCHANGED <<accounts, position, job, lastIndex, working, audit, blind>>

\* Mutant: the rescue order's result replaces the leg's.
CombineResultsLast(left, right) == right

CombineResults(left, right) ==
  [status |-> IF left.filled + right.filled > 0 THEN "matched" ELSE right.status,
   filled |-> left.filled + right.filled]

Rescue(r) ==
  /\ run[r].pc = "rescuing"
  /\ LET outcome == SafetyOutcome(r)
         v == outcome.rescueVenue
     IN \E report \in Answers(outcome.residual) :
          /\ run' = [run EXCEPT ![r].pc = "recording",
                                ![r].leg[v] = CombineResults(@, report),
                                ![r].attempt = IF report.filled >= outcome.residual
                                               THEN "succeeded" ELSE "failed"]
          /\ IF v = "PREDICT" THEN Executed(run[r].account, report)
             ELSE UNCHANGED <<position, working>>
  /\ UNCHANGED <<accounts, job, lastIndex, audit, blind>>

\* Mutant: only a leg that filled completely is held.
FinishedWhenFull(r, acc) ==
  IF ~run[r].dry /\ run[r].leg["PREDICT"].filled = Shares
  THEN MarkedHeld(acc, "pending", position[run[r].account])
  ELSE Released(acc)

\* finishPredictAccount, on the current record of the account.
Finished(r, acc) ==
  IF ~run[r].dry /\ run[r].leg["PREDICT"].filled > 0
  THEN MarkedHeld(acc, "pending", position[run[r].account])
  ELSE Released(acc)

MustPause(outcome) ==
  outcome.state = "PAUSED" \/ "PAUSE_NEW_OPENINGS" \in outcome.actions

Finish(r) ==
  /\ run[r].pc = "recording"
  /\ accounts' = [accounts EXCEPT ![run[r].account] = Finished(r, @)]
  /\ IF MustPause(SafetyOutcome(r)) THEN Goto(r, "paused") ELSE MatchEnds(r)
  /\ UNCHANGED <<position, job, lastIndex, working, audit, blind>>

\* An order book, the audit sink or the alert sink rejects.
Throw(r) ==
  /\ run[r].pc \in {"scanning", "recording"}
  /\ Goto(r, "threw")
  /\ UNCHANGED <<accounts, position, job, lastIndex, working, audit, blind>>

End(r) ==
  /\ run[r].pc = "scanning" /\ run[r].left = 0
  /\ Goto(r, "done")
  /\ UNCHANGED <<accounts, position, job, lastIndex, working, audit, blind>>

-----------------------------------------------------------------------------
(* auditPositionsJob, one account at a time; an empty answer changes nothing *)

AuditAnswers(a) ==
  /\ audit = NoAudit
  /\ position[a] # "flat"
  /\ audit' = [account |-> a, found |-> position[a]]
  /\ UNCHANGED <<accounts, position, job, lastIndex, run, working, blind>>

AuditMarks ==
  /\ audit # NoAudit
  /\ accounts' = [accounts EXCEPT ![audit.account] = HeldFromPosition(@, AtHand(audit.account, audit.found))]
  /\ audit' = NoAudit
  /\ blind' = IF position[audit.account] = "flat" THEN blind \cup {audit.account} ELSE blind
  /\ UNCHANGED <<position, job, lastIndex, run, working>>

-----------------------------------------------------------------------------
(* The process crashes and starts again: the records are those of the         *)
(* configuration, and orders whose answers were due are abandoned.            *)

Restart ==
  /\ accounts' = [a \in Account |-> Loaded(FALSE)]
  /\ lastIndex' = NumAccounts
  /\ run' = [r \in Run |-> [NoRun EXCEPT !.pc = "threw"]]
  /\ job' = Idle
  /\ audit' = NoAudit
  /\ working' = [a \in Account |->
                   working[a] \/ \E r \in Run : On(r, a) /\ AwaitsPredict(r)]
  /\ blind' = blind \cup {a \in Account : position[a] # "flat" \/ working'[a]}
  /\ UNCHANGED position

RunOnce(r) == \/ Begin(r) \/ PassOver(r) \/ Place(r) \/ RefusePlan(r)
              \/ \E v \in Venue : Answer(r, v)
              \/ OrderRejects(r) \/ Collect(r) \/ Rescue(r)
              \/ Finish(r) \/ Throw(r) \/ End(r)

Audit == AuditMarks \/ \E a \in Account : AuditAnswers(a)

Settlement ==
  /\ \/ RedeemSettled
     \/ AdvanceHeldStateByTime
     \/ \E a \in Account : /\ ~working[a]
                           /\ \A r \in Run : ~On(r, a)
                           /\ MarketMoves(a)
  /\ UNCHANGED <<lastIndex, run, working, audit, blind>>

Next == \/ \E r \in Run : RunOnce(r)
        \/ \E a \in Account : OrderEnds(a)
        \/ Audit \/ Settlement \/ Restart

Spec == Init /\ [][Next]_vars

-----------------------------------------------------------------------------
TypeOK ==
  /\ accounts \in [Account -> AccountState]
  /\ position \in [Account -> Position]
  /\ job \in Job
  /\ lastIndex \in Account
  /\ run \in [Run -> RunState]
  /\ working \in [Account -> BOOLEAN]
  /\ audit \in [account : Account, found : Position]
  /\ blind \subseteq Account

(* Why it works.  The parts are about accounts whose record the venue does not *)
(* contradict; with TypeOK and the properties below they are inductive as long *)
(* as no venue leaves an order open (DelayedOrders = FALSE).                   *)

\* An account a run works with is not READY, has no order of another's at work,
\* and its market is not over; if an audit put it on record, that was for a
\* position the run has just opened.
EngagedAccount ==
  \A r \in Run : \A a \in Account \ blind :
    On(r, a) => /\ accounts[a].status # "READY"
                /\ ~working[a]
                /\ position[a] \in {"flat", "open"}
                /\ accounts[a].held # "none" => position[a] = "open"

\* The report on the Predict leg is what happened on the venue.
ReportIsTrue ==
  \A r \in Run : \A a \in Account \ blind :
    On(r, a) => (position[a] = "flat" <=> run[r].dry \/ run[r].leg["PREDICT"].filled = 0)

\* A dry run has both its reports from the start and rescues nothing.
DryIsComplete ==
  \A r \in Run :
    run[r].pc \in Engaged /\ run[r].dry => run[r].leg = DryLegs /\ run[r].pc # "rescuing"

\* A rescue is for legs that differ, and what it leaves different is on record.
RescueIsDue ==
  \A r \in Run :
    LET p == run[r].leg["PREDICT"].filled
        q == run[r].leg["POLYMARKET"].filled
    IN /\ run[r].pc \in {"rescuing", "recording"} =>
            \A v \in Venue : run[r].leg[v] # NoReport
       /\ run[r].pc = "rescuing" => p # q
       /\ run[r].pc = "recording" /\ p # q => run[r].attempt = "failed"

\* The job works on a held account that no run and no order is at work on.
RedeemsAlone ==
  \A a \in Account \ blind :
    job.step # "idle" /\ job.account = a
    => /\ accounts[a].held # "none"
       /\ \A r \in Run : ~On(r, a)
       /\ ~working[a]
       /\ job.step = "redeemed" => position[a] = "flat"

\* An order that outlived its run keeps its market from being over, and the
\* position from being taken for paid out.
WorkingOrder ==
  \A a \in Account \ blind :
    working[a] => /\ position[a] \in {"flat", "open"}
                  /\ accounts[a].held # "none" => position[a] = "open"

\* Nothing here sets a cooldown or counts open orders.
PlainRecords == \A a \in Account : ~accounts[a].cooldown /\ ~accounts[a].orders

-----------------------------------------------------------------------------
\* Overlapping runs never work with one account, although no lock is taken:
\* whatever the jobs write into the records, an account in a hedge is not given
\* out again before the hedge is over.
OneRunPerAccount ==
  \A q, r \in Run : \A a \in Account \ blind :
    On(q, a) /\ On(r, a) => q = r

\* An account that can be picked has nothing on the venue, neither a position nor
\* an order that may become one, also after a run that threw half way.
ReadyIsFlat ==
  \A a \in Account \ blind :
    IsReady(accounts[a]) => position[a] = "flat" /\ ~working[a]

\* The inductive invariant.
SoundEngagement == /\ TypeOK /\ PlainRecords
                   /\ EngagedAccount /\ ReportIsTrue /\ DryIsComplete /\ RescueIsDue
                   /\ RedeemsAlone /\ WorkingOrder
                   /\ OneRunPerAccount /\ ReadyIsFlat

\* A hedge whose legs differ, rescued or not, never leads to the next match: the
\* run pauses or ends in an exception (MVP_LIVE_V1.md:48).
NoSilentResidual ==
  [][\A r \in Run :
       /\ run[r].pc = "recording"
       /\ run[r].leg["PREDICT"].filled # run[r].leg["POLYMARKET"].filled
       => run'[r].pc \in {"recording", "paused", "threw"}]_vars

\* RISK.md:66 counts a delayed order as exposure until it is resolved; the
\* coordinator releases the account of a delayed Predict order.
DelayedIsExposure ==
  \A a \in Account \ blind : working[a] => ~IsReady(accounts[a])

\* README.md:156 has selection audit the unsettled positions of an account; the
\* coordinator picks by the record alone, also after a restart.
SelectionAudits ==
  [][\A r \in Run :
       run[r].pc = "scanning" /\ run'[r].pc = "placing"
       => position[run'[r].account] = "flat"]_vars

-----------------------------------------------------------------------------
(* What a run and the jobs promise of each account is AccountLifecycle.       *)

Phase(a) == IF a \in blind THEN "lost"
            ELSE IF accounts[a].held # "none" THEN "held"
            ELSE IF IsReady(accounts[a]) THEN "free" ELSE "let"

Lifecycle(a) == INSTANCE AccountLifecycle
                  WITH phase <- Phase(a), exposed <- position[a] # "flat"

\* Every account follows the abstract life cycle: this is Lifecycle(a)!Spec for
\* every account a, with the accounts moved inside the box.
FollowsLifecycle ==
  /\ \A a \in Account : Lifecycle(a)!Init
  /\ [][\A a \in Account : Lifecycle(a)!Next \/ UNCHANGED Lifecycle(a)!vars]_vars
=============================================================================
